---- MODULE Spec2Model ----
(***************************************************************************)
(* A model of the agentic LLM gateway: the strategy cell and its poller,   *)
(* the gateway's request handler, the providers' upstream calls with the   *)
(* 404 fallback, the SSE stream producer and forwarder, and the evaluator  *)
(* pool.                                                                   *)
(***************************************************************************)
EXTENDS Integers, Sequences, FiniteSets, TLC

VARIABLES
    \* ---- RemoteManager and providers (process-lived) ----
    cell,           \* RemoteManager.strategy: address of the strategy it holds
    heap,           \* the RemoteStrategy objects alive, by address
    defaultModel,   \* Provider.defaultModel of every registered provider
    fetches,        \* number of fetches the poller has performed
    fpc,            \* position of the poller inside fetch
    started,        \* Start has returned: its initial fetch is over
    interval,       \* RemoteManager.interval, the configured poll_interval
    ticker,         \* the polling goroutine: "none", "running" or "panic"
    \* ---- one request through handleChatCompletions ----
    hpc,            \* position of the request's goroutine
    req,            \* the decoded ChatCompletionRequest (model, stream)
    snap,           \* the strategy handleChatCompletions obtained (line 61)
    snapAt,         \* address of that strategy (-1: none obtained yet)
    provider,       \* the provider SelectProvider returned
    httpStatus,     \* status the handler answered with (0: none yet)
    out,            \* frames written to the client, in order
    ctxDone,        \* the request context is cancelled (client went away)
    \* ---- the provider call made by the request ----
    calls,          \* models of the upstream requests issued, in order
    statuses,       \* upstream replies received, in order
    fbStrat,        \* strategies the fallback getter read (<<>>: not called)
    callResult,     \* "none", "ok" (nil error) or "err"
    bodyCloses,     \* Body.Close() calls made on every upstream reply, in order
    \* ---- stream producer (pipeStream goroutine) and channel ----
    body,           \* lines of the upstream SSE body
    pos,            \* number of body lines the producer has consumed
    gpc,            \* position of the producer goroutine
    pending,        \* chunk the producer is trying to send (0: none)
    closeCount,     \* number of close(streamChan) executed
    producers,      \* number of pipeStream goroutines started
    sentAfterClose, \* a send happened on the closed channel
    \* ---- EvaluateAll ----
    epc,            \* position of the EvaluateAll caller
    evals,          \* the evaluators given to EvaluateAll, in order
    gTimeout,       \* the globalTimeoutMs argument
    now,            \* the clock (ms)
    startAt,        \* time EvaluateAll was called
    deadline,       \* deadline of the derived context
    spawned,        \* number of g.Go calls made
    task,           \* state of every spawned task
    taskRes,        \* the score Evaluate returned to every task (-1: none, or an error)
    finishedLate,   \* whether each task's Evaluate returned after the deadline
    results,        \* the results map: evaluator name -> score
    writer,         \* for every key of results, the task that wrote it last
    returnedAt,     \* time EvaluateAll returned (-1: not yet)
    lateWrite,      \* a task wrote to the map after EvaluateAll returned
    \* ---- one provider's defaultModel field under concurrent callers ----
    mu,             \* Provider.mu: the writer holding it (0: none), the readers
    dmWords,        \* Provider.defaultModel as stored: data pointer and length
    wpc,            \* position of every SetDefaultModel caller
    rpc,            \* position of every resolveModel caller
    rloc,           \* resolveModel's local m, word by word
    rres,           \* what every resolveModel call returned
    \* ---- the routing engine ----
    GlobalConfig,   \* config.GlobalConfig
    engine,         \* the defaultEngine: providerMap (its keys) and evaluators
    vectors,        \* what EvaluateAll returned to SelectProvider
    \* ---- the Anthropic request mapping ----
    chat,           \* the ChatCompletionRequest given to mapRequest
    areq,           \* the anthropicRequest mapRequest returned
    \* ---- one call of the Gemini provider, as far as its errors go ----
    gem,            \* apiKey, model, position, error returned, log lines
    \* ---- one call of ProcessSSEStream ----
    sse,            \* the lines read, the callback, the lines it was invoked on
    \* ---- one call of LLMLogprobEvaluator.evaluateOllama ----
    olm,            \* the reply's content, the error or score returned
    \* ---- one call of RemoteStrategy.FallbackOn404Enabled ----
    flag            \* the receiver and the value returned

reqVars  == <<hpc, req, snap, snapAt, provider, httpStatus, out, ctxDone>>
callVars == <<calls, statuses, fbStrat, callResult, bodyCloses>>
prodVars == <<body, pos, gpc, pending, closeCount, producers, sentAfterClose>>
rmVars   == <<cell, heap, defaultModel, fetches, fpc, started, interval,
              ticker>>
evalVars == <<epc, evals, gTimeout, now, startAt, deadline, spawned, task,
              taskRes, finishedLate, results, writer, returnedAt, lateWrite>>
raceVars == <<mu, dmWords, wpc, rpc, rloc, rres>>
engVars  == <<GlobalConfig, engine, vectors>>
mapVars  == <<chat, areq>>
fnVars   == <<gem, sse, olm, flag>>
vars     == <<rmVars, reqVars, callVars, prodVars, evalVars, raceVars, engVars, mapVars, fnVars>>

(***************************************************************************)
(* Bounds of the model.                                                    *)
(***************************************************************************)
MaxFetches == 2     \* fetches the poller performs in one behaviour
MaxBody    == 3     \* lines of an upstream SSE body
ShortBody  == 1     \* body lines when the poller runs alongside the stream
LiveBody   == 2     \* body lines in the fair specification
MaxCalls   == 3     \* upstream requests recorded for one provider call
MaxEvals   == 2     \* evaluators handed to EvaluateAll
MaxTime    == 3     \* clock values explored around the deadline
SlackMs    == 1     \* scheduling slack granted to EvaluateAll's return
MaxWriters == 2     \* concurrent SetDefaultModel callers
MaxReaders == 2     \* concurrent resolveModel callers
MaxRules   == 1     \* rules of a resolution strategy
MaxKey      == 2  \* characters of the Gemini API key
MaxErrBody  == 2  \* characters of an upstream error body
MaxContent  == 3  \* characters of the content of an Ollama reply
MaxMessages == 3  \* messages of a request given to mapRequest
MaxResolverRules == 2  \* rules of the resolver checked on its own

(***************************************************************************)
(* Strategies and providers.                                               *)
(***************************************************************************)
\* The providers main registers (all of them configured).
Registered == {"openai", "anthropic", "google", "local_vllm"}

\* The implementation behind a provider name.
Kind(p) == IF p \in {"openai", "deepseek", "local_vllm"} THEN "openai" ELSE p

\* The compile-time DefaultModel constant of each provider package.
DefaultModel(kind) ==
    CASE kind = "openai"    -> "gpt-5"
      [] kind = "anthropic" -> "claude-3-5-haiku-20241022"
      [] kind = "google"    -> "gemini-3.0-flash-preview"

\* A RemoteStrategy value. FallbackOn404 is a *bool: "nil", "true", "false".
MkStrategy(s, lm, rp, rm, pm, fb) ==
    [ptr |-> "set", Strategy |-> s, LocalModel |-> lm, RemoteProvider |-> rp,
     RemoteModel |-> rm, ProviderModels |-> pm, FallbackOn404 |-> fb]

\* &RemoteStrategy{}: what NewRemoteManager stores.
ZeroStrategy == MkStrategy("", "", "", "", [p \in {} |-> ""], "nil")

\* A nil *RemoteStrategy.
NilStrategy == [ZeroStrategy EXCEPT !.ptr = "nil"]

\* An absent provider_models map.
NoModels == [p \in {} |-> ""]

\* Documents the strategy URL may serve.
FetchedStrategies ==
    { MkStrategy("remote", "", "openai", "m1", NoModels, "nil"),
      MkStrategy("remote", "", "anthropic", "",
                 [p \in {"anthropic", "deepseek"} |-> "m2"], "false"),
      MkStrategy("remote", "", "", "m1", [p \in {"google"} |-> ""], "true"),
      MkStrategy("local", "gpt-5", "", "m1", [p \in {"local_vllm"} |-> "m2"], "false") }

\* Faulty variant: an absent field reads as the bool's zero value.
FallbackOn404EnabledZeroValue(rs) ==
    IF rs.ptr = "nil" THEN TRUE ELSE rs.FallbackOn404 = "true"

\* FallbackOn404Enabled: nil receiver or absent field means enabled.
FallbackOn404Enabled(rs) ==
    IF rs.ptr = "nil" \/ rs.FallbackOn404 = "nil" THEN TRUE
    ELSE rs.FallbackOn404 = "true"

\* GetStrategy: the value the cell holds (an empty strategy if none).
GetStrategy(c) == IF c.ptr = "nil" THEN ZeroStrategy ELSE c

\* Faulty variant: the runtime default takes precedence over the request's model.
resolveModelDefaultFirst(p, reqModel, dm) ==
    IF dm[p] # "" THEN dm[p]
    ELSE IF reqModel # "" THEN reqModel
    ELSE DefaultModel(Kind(p))

\* resolveModel: the request's model, else the runtime default, else the
\* compile-time default.
resolveModel(p, reqModel, dm) ==
    IF reqModel # "" THEN reqModel
    ELSE IF dm[p] # "" THEN dm[p]
    ELSE DefaultModel(Kind(p))

\* Faulty variant: every entry is pushed, an empty one too.
applyProviderModelsAll(dm, models) ==
    [p \in DOMAIN dm |-> IF p \in DOMAIN models THEN models[p] ELSE dm[p]]

\* Faulty variant: a provider that already has a runtime default keeps it.
applyProviderModelsUnset(dm, models) ==
    [p \in DOMAIN dm |->
        IF p \in DOMAIN models /\ models[p] # "" /\ dm[p] = "" THEN models[p] ELSE dm[p]]

\* applyProviderModels: non-empty entries of registered providers are set.
applyProviderModels(dm, models) ==
    [p \in DOMAIN dm |->
        IF p \in DOMAIN models /\ models[p] # "" THEN models[p] ELSE dm[p]]

\* ---- config.GlobalConfig and the generative tier ----
\* A ResolutionStrategyConfig.
MkResolution(t, rules, dp) == [Type |-> t, Rules |-> rules, DefaultProvider |-> dp]

\* A *GenerativeRoutingConfig (the fields SelectProvider reads).
MkGenerative(en, fb, res) ==
    [ptr |-> "set", Enabled |-> en, FallbackProvider |-> fb, Resolution |-> res]

\* A nil *GenerativeRoutingConfig.
NilGenerative ==
    [ptr |-> "nil", Enabled |-> FALSE, FallbackProvider |-> "",
     Resolution |-> MkResolution("", <<>>, "")]

\* A *Config with the given generative_routing section and the given
\* remote_strategy.expression.
MkConfig(g, x) ==
    [ptr |-> "set", GenerativeRouting |-> g, RemoteStrategy |-> [Expression |-> x]]

\* A nil config.GlobalConfig.
NilConfig ==
    [ptr |-> "nil", GenerativeRouting |-> NilGenerative,
     RemoteStrategy |-> [Expression |-> ""]]

\* A rule's condition: comparisons of a dimension with a number, joined by
\* && or by || ("bad": an expression that does not parse).
Cmp(op, var, num) == [op |-> op, var |-> var, num |-> num]
Cond(conn, atoms) == [conn |-> conn, atoms |-> atoms]

\* expr.Compile of a rule's condition: a malformed one fails.
Compiles(cond) == cond.conn # "bad"

\* One comparison under expr.AllowUndefinedVariables(): a dimension absent
\* from the vector is nil, which equals no number, and whose ordering
\* against a number is a run-time error.
CmpEval(a, v) ==
    IF a.var \in DOMAIN v
    THEN CASE a.op = "eq" -> IF v[a.var] = a.num THEN "true" ELSE "false"
           [] a.op = "ne" -> IF v[a.var] # a.num THEN "true" ELSE "false"
           [] a.op = "lt" -> IF v[a.var] < a.num THEN "true" ELSE "false"
           [] a.op = "gt" -> IF v[a.var] > a.num THEN "true" ELSE "false"
    ELSE CASE a.op = "eq" -> "false"
           [] a.op = "ne" -> "true"
           [] OTHER       -> "error"

\* expr.Run of a compiled condition: the comparisons are evaluated from the
\* left, && stopping at the first false one and || at the first true one.
RECURSIVE CondEval(_, _, _)
CondEval(conn, atoms, v) ==
    IF atoms = <<>> THEN (IF conn = "and" THEN "true" ELSE "false")
    ELSE LET h == CmpEval(Head(atoms), v)
         IN IF h = "error" THEN "error"
            ELSE IF conn = "and" /\ h = "false" THEN "false"
            ELSE IF conn = "or" /\ h = "true" THEN "true"
            ELSE CondEval(conn, Tail(atoms), v)

\* Lines 58-63: the rule matches if Run returned no error and the boolean
\* true.
Matches(cond, v) == CondEval(cond.conn, cond.atoms, v) = "true"

\* Faulty variant: the last matching rule wins.
RECURSIVE ExpressionResolveLast(_, _, _)
ExpressionResolveLast(rules, dp, v) ==
    IF rules = <<>> THEN dp
    ELSE LET r == rules[Len(rules)]
         IN IF Compiles(r.Condition) /\ Matches(r.Condition, v)
            THEN r.TargetProvider
            ELSE ExpressionResolveLast(SubSeq(rules, 1, Len(rules) - 1), dp, v)

\* Faulty variant: a rule whose evaluation fails ends the resolution with
\* the default provider.
RECURSIVE ExpressionResolveAbort(_, _, _)
ExpressionResolveAbort(rules, dp, v) ==
    IF rules = <<>> THEN dp
    ELSE LET c == Head(rules).Condition
         IN IF Compiles(c) /\ CondEval(c.conn, c.atoms, v) = "error" THEN dp
            ELSE IF Compiles(c) /\ Matches(c, v) THEN Head(rules).TargetProvider
            ELSE ExpressionResolveAbort(Tail(rules), dp, v)

\* ExpressionResolver.Resolve: the target of the first compiled rule that
\* matches, else the default provider.
RECURSIVE ExpressionResolve(_, _, _)
ExpressionResolve(rules, dp, v) ==
    IF rules = <<>> THEN dp
    ELSE IF Compiles(Head(rules).Condition) /\ Matches(Head(rules).Condition, v)
         THEN Head(rules).TargetProvider
         ELSE ExpressionResolve(Tail(rules), dp, v)

\* StrictLocalResolver.Resolve: local_vllm when the three scores are there
\* and all zero, else the default provider.
StrictLocalResolve(dp, v) ==
    IF /\ {"complexity", "context_rel", "length_check"} \subseteq DOMAIN v
       /\ v["complexity"] = 0 /\ v["context_rel"] = 0 /\ v["length_check"] = 0
    THEN "local_vllm"
    ELSE dp

\* NewResolver(cfg) and, if it is not nil, resolver.Resolve(vectors).
ResolverResolve(res, v) ==
    CASE res.Type = "dynamic_expression" ->
             ExpressionResolve(res.Rules, res.DefaultProvider, v)
      [] res.Type = "strict_local_first" -> StrictLocalResolve(res.DefaultProvider, v)
      [] OTHER -> ""

\* Line 64: the generative tier runs.
GenerativeOn(gc, e) ==
    /\ gc.ptr = "set"
    /\ gc.GenerativeRouting.ptr = "set"
    /\ gc.GenerativeRouting.Enabled
    /\ Len(e.evaluators) > 0

\* Faulty variant: fallback_provider is preferred to the resolver's answer.
targetProviderFallbackFirst(g, v) ==
    IF g.FallbackProvider # "" THEN g.FallbackProvider
    ELSE ResolverResolve(g.Resolution, v)

\* Lines 70-78: the resolver's answer, else fallback_provider.
targetProvider(g, v) ==
    LET t == ResolverResolve(g.Resolution, v)
    IN IF t = "" THEN g.FallbackProvider ELSE t

\* Faulty variant: a target that is not registered is an error.
GenerativeTierStrict(r, e, gc, v) ==
    LET t == targetProvider(gc.GenerativeRouting, v)
    IN IF GenerativeOn(gc, e) /\ t # ""
       THEN [decided |-> TRUE, p |-> t, model |-> r.model, err |-> t \notin e.providerMap]
       ELSE [decided |-> FALSE, p |-> "", model |-> "", err |-> FALSE]

\* Lines 64-86: the generative tier returns (target, req.Model, nil) when
\* it runs and its target is registered, and else leaves the decision to
\* the tiers below.
GenerativeTier(r, e, gc, v) ==
    LET t == targetProvider(gc.GenerativeRouting, v)
    IN IF GenerativeOn(gc, e) /\ t # "" /\ t \in e.providerMap
       THEN [decided |-> TRUE, p |-> t, model |-> r.model, err |-> FALSE]
       ELSE [decided |-> FALSE, p |-> "", model |-> "", err |-> FALSE]

\* Faulty variant: local_vllm is preferred to google.
MissingStrategyLocalFirst(r, pmap) ==
    IF "local_vllm" \in pmap THEN [p |-> "local_vllm", model |-> r.model, err |-> FALSE]
    ELSE IF "google" \in pmap
         THEN [p |-> "google", model |-> r.model, err |-> FALSE]
         ELSE [p |-> "", model |-> "", err |-> TRUE]

\* Lines 89-98: no strategy, google then local_vllm.
MissingStrategy(r, pmap) ==
    IF "google" \in pmap THEN [p |-> "google", model |-> r.model, err |-> FALSE]
    ELSE IF "local_vllm" \in pmap
         THEN [p |-> "local_vllm", model |-> r.model, err |-> FALSE]
         ELSE [p |-> "", model |-> "", err |-> TRUE]

\* Faulty variant: an unknown Strategy value is routed like "remote".
DirectTierLenient(r, rs, pmap) ==
    IF rs.Strategy = "local" THEN
        IF "local_vllm" \in pmap
        THEN [p |-> "local_vllm", model |-> rs.LocalModel, err |-> FALSE]
        ELSE [p |-> "", model |-> "", err |-> TRUE]
    ELSE
        LET target == IF rs.RemoteProvider = "" THEN "google" ELSE rs.RemoteProvider
        IN IF target \in pmap
           THEN [p |-> target, model |-> rs.RemoteModel, err |-> FALSE]
           ELSE [p |-> "", model |-> "", err |-> TRUE]

\* Faulty variant: the direct tier returns the map's entry without looking
\* at `ok`: a nil provider with a nil error when the name is not registered.
DirectTierUnchecked(r, rs, pmap) ==
    IF rs.Strategy = "remote" THEN
        LET target == IF rs.RemoteProvider = "" THEN "google" ELSE rs.RemoteProvider
        IN [p |-> IF target \in pmap THEN target ELSE "",
            model |-> rs.RemoteModel, err |-> FALSE]
    ELSE IF rs.Strategy = "local" THEN
        [p |-> IF "local_vllm" \in pmap THEN "local_vllm" ELSE "",
         model |-> rs.LocalModel, err |-> FALSE]
    ELSE [p |-> "", model |-> "", err |-> TRUE]

\* Lines 137-158: the direct tier.
DirectTier(r, rs, pmap) ==
    IF rs.Strategy = "remote" THEN
        LET target == IF rs.RemoteProvider = "" THEN "google" ELSE rs.RemoteProvider
        IN IF target \in pmap
           THEN [p |-> target, model |-> rs.RemoteModel, err |-> FALSE]
           ELSE [p |-> "", model |-> "", err |-> TRUE]
    ELSE IF rs.Strategy = "local" THEN
        IF "local_vllm" \in pmap
        THEN [p |-> "local_vllm", model |-> rs.LocalModel, err |-> FALSE]
        ELSE [p |-> "", model |-> "", err |-> TRUE]
    ELSE [p |-> "", model |-> "", err |-> TRUE]

\* ---- the routing expression ----
\* expr.Compile(Expression, expr.Env(Env{})): a malformed expression fails.
ExprCompiles(x) == x # "invalid + )"

\* expr.Run(program, Env{Req: req, Cfg: remoteCfg}) for the expressions of
\* the model; on a request without messages, indexing Req.Messages is a
\* run-time error. str tells whether the value is a string.
ExprRun(x, r, rs) ==
    CASE x = "Req.Messages[0].Role == 'user' ? 'google' : 'openai'" ->
             IF r.messages = 0 THEN [err |-> TRUE, str |-> FALSE, val |-> ""]
             ELSE [err |-> FALSE, str |-> TRUE, val |-> "google"]
      [] x = "1 + 1" -> [err |-> FALSE, str |-> FALSE, val |-> ""]
      [] x = "'unknown_provider'" ->
             [err |-> FALSE, str |-> TRUE, val |-> "unknown_provider"]
      [] x = "'google'" -> [err |-> FALSE, str |-> TRUE, val |-> "google"]
      [] x = "Cfg.Strategy == 'remote' ? 'anthropic' : 'local_vllm'" ->
             [err |-> FALSE, str |-> TRUE,
              val |-> IF rs.Strategy = "remote" THEN "anthropic" ELSE "local_vllm"]

\* Faulty variant: the remote model is preferred for every provider.
exprTargetModelRemoteFirst(name, r, rs) ==
    IF rs.RemoteModel # "" THEN rs.RemoteModel
    ELSE IF name = "local_vllm" /\ rs.LocalModel # "" THEN rs.LocalModel
    ELSE r.model

\* Lines 114-123: the model returned with the provider the expression named.
exprTargetModel(name, r, rs) ==
    IF name = "local_vllm" /\ rs.LocalModel # "" THEN rs.LocalModel
    ELSE IF rs.RemoteModel # "" THEN rs.RemoteModel
    ELSE r.model

\* Faulty variant: an expression that fails, or names no registered
\* provider, is a routing error.
ExpressionTierStrict(r, rs, e, gc) ==
    LET x == gc.RemoteStrategy.Expression
    IN IF gc.ptr = "set" /\ x # ""
       THEN IF /\ ExprCompiles(x)
               /\ ~ExprRun(x, r, rs).err /\ ExprRun(x, r, rs).str
               /\ ExprRun(x, r, rs).val \in e.providerMap
            THEN [decided |-> TRUE, p |-> ExprRun(x, r, rs).val,
                  model |-> exprTargetModel(ExprRun(x, r, rs).val, r, rs), err |-> FALSE]
            ELSE [decided |-> TRUE, p |-> "", model |-> "", err |-> TRUE]
       ELSE [decided |-> FALSE, p |-> "", model |-> "", err |-> FALSE]

\* Lines 106-134: the expression tier returns when the expression compiles,
\* runs, yields a string and that string names a registered provider; else
\* it leaves the decision to the direct tier.
ExpressionTier(r, rs, e, gc) ==
    LET x   == gc.RemoteStrategy.Expression
        res == ExprRun(x, r, rs)
    IN IF /\ gc.ptr = "set" /\ x # ""
          /\ ExprCompiles(x)
          /\ ~res.err /\ res.str
          /\ res.val \in e.providerMap
       THEN [decided |-> TRUE, p |-> res.val,
             model |-> exprTargetModel(res.val, r, rs), err |-> FALSE]
       ELSE [decided |-> FALSE, p |-> "", model |-> "", err |-> FALSE]

\* SelectProvider: the generative tier, the missing-strategy tier, the
\* expression tier and the direct tier. v is what EvaluateAll returned
\* (read only when the generative tier runs).
SelectProvider(r, rs, e, gc, v) ==
    LET g == GenerativeTier(r, e, gc, v)
    IN IF g.decided THEN [p |-> g.p, model |-> g.model, err |-> g.err]
       ELSE IF rs.ptr = "nil" \/ rs.Strategy = ""
            THEN MissingStrategy(r, e.providerMap)
            ELSE LET x == ExpressionTier(r, rs, e, gc)
                 IN IF x.decided THEN [p |-> x.p, model |-> x.model, err |-> x.err]
                    ELSE DirectTier(r, rs, e.providerMap)

\* What EvaluateAll may return for the engine's evaluators: the scores of
\* those that succeeded.
NoVector == [k \in {} |-> 0]
Vectors(e) ==
    LET names == {e.evaluators[i] : i \in DOMAIN e.evaluators}
    IN UNION { [S -> {0, 1}] : S \in SUBSET names }

(***************************************************************************)
(* RemoteManager: the poller's fetch.                                      *)
(***************************************************************************)
\* Initial runtime defaults NewProvider may be given (default_model).
ConfiguredDefaults == {"", "bad-model"}

\* The strategy the cell's pointer refers to (a nil view if it holds none).
CellStrategy == IF cell \in DOMAIN heap THEN heap[cell] ELSE NilStrategy

\* The objects still referenced once the cell points to c: the cell's, the
\* one a request holds, the local of the running fetch.
Reachable(h, c, sa, f) == [a \in DOMAIN h \cap {c, sa, f} |-> h[a]]

\* Values poll_interval may be configured with (absent: 0).
PollIntervals == {0, 1}

\* fetch is called: by Start itself before it returns, then at every tick
\* of the polling goroutine's ticker.
FetchDue == IF started THEN ticker = "running" ELSE ticker = "none"

\* The goroutine Start launched: time.NewTicker(rm.interval), which panics
\* if the interval is not positive.
TickerStart ==
    /\ started
    /\ ticker = "none"
    /\ ticker' = IF interval > 0 THEN "running" ELSE "panic"
    /\ UNCHANGED <<cell, heap, defaultModel, fetches, fpc, started, interval, reqVars,
                   callVars, prodVars, evalVars, raceVars, engVars, mapVars, fnVars>>

\* Why a fetch returns an error before anything is stored.
FetchErrors == {"empty url", "transport", "status", "read body", "unmarshal"}

\* Faulty variant: a fetch that fails on the body stores the local it had.
FetchFailStores ==
    /\ fpc = "idle"
    /\ FetchDue
    /\ fetches < MaxFetches
    /\ fetches' = fetches + 1
    /\ cell' = fetches + 1
    /\ heap' = Reachable([a \in DOMAIN heap \cup {fetches + 1} |->
                             IF a = fetches + 1 THEN ZeroStrategy ELSE heap[a]],
                         fetches + 1, snapAt, fetches + 1)
    /\ started' = TRUE
    /\ UNCHANGED <<interval, ticker, defaultModel, fpc, reqVars, callVars, prodVars,
                   evalVars, raceVars, engVars, mapVars, fnVars>>

\* fetch fails (empty URL, transport error, non-200, unreadable body, or a
\* body json.Unmarshal rejects, the half-filled local being dropped): it
\* returns the error.
FetchFail ==
    /\ fpc = "idle"
    /\ FetchDue
    /\ fetches < MaxFetches
    /\ \E e \in FetchErrors : fetches' = fetches + 1
    /\ started' = TRUE
    /\ UNCHANGED <<interval, ticker, cell, heap, defaultModel, fpc, reqVars,
                   callVars, prodVars, evalVars, raceVars, engVars, mapVars, fnVars>>

\* Faulty variant: the document is decoded into the object the cell holds.
FetchUnmarshalInPlace ==
    /\ fpc = "idle"
    /\ FetchDue
    /\ fetches < MaxFetches
    /\ fetches' = fetches + 1
    /\ \E s \in FetchedStrategies :
         heap' = [a \in DOMAIN heap \cup {fetches + 1} |->
                     IF a \in {cell, fetches + 1} THEN s ELSE heap[a]]
    /\ fpc' = "store"
    /\ UNCHANGED <<interval, ticker, cell, defaultModel, started, reqVars, callVars,
                   prodVars, evalVars, raceVars, engVars, mapVars, fnVars>>

\* 200 with a valid document: json.Unmarshal fills the fetch's local
\* `strategy`, a new object nobody else refers to yet.
FetchUnmarshal ==
    /\ fpc = "idle"
    /\ FetchDue
    /\ fetches < MaxFetches
    /\ fetches' = fetches + 1
    /\ \E s \in FetchedStrategies :
         heap' = [a \in DOMAIN heap \cup {fetches + 1} |->
                     IF a = fetches + 1 THEN s ELSE heap[a]]
    /\ fpc' = "store"
    /\ UNCHANGED <<interval, ticker, cell, defaultModel, started, reqVars, callVars,
                   prodVars, evalVars, raceVars, engVars, mapVars, fnVars>>

\* Faulty variant: the cell's object is updated in place, field by field.
FetchStoreInPlace ==
    /\ fpc = "store"
    /\ heap' = [heap EXCEPT ![cell] =
                   [@ EXCEPT !.Strategy = heap[fetches].Strategy,
                             !.RemoteProvider = heap[fetches].RemoteProvider]]
    /\ fpc' = "apply"
    /\ UNCHANGED <<interval, ticker, cell, defaultModel, fetches, started, reqVars,
                   callVars, prodVars, evalVars, raceVars, engVars, mapVars, fnVars>>

\* rm.strategy.Store(&strategy): the cell now points to the new object.
FetchStore ==
    /\ fpc = "store"
    /\ cell' = fetches
    /\ heap' = Reachable(heap, fetches, snapAt, fetches)
    /\ fpc' = "apply"
    /\ UNCHANGED <<interval, ticker, defaultModel, fetches, started, reqVars,
                   callVars, prodVars, evalVars, raceVars, engVars, mapVars, fnVars>>

\* ... then rm.applyProviderModels(strategy.ProviderModels).
FetchApply ==
    /\ fpc = "apply"
    /\ defaultModel' = applyProviderModels(defaultModel, heap[fetches].ProviderModels)
    /\ fpc' = "idle"
    /\ started' = TRUE
    /\ UNCHANGED <<interval, ticker, cell, heap, fetches, reqVars, callVars,
                   prodVars, evalVars, raceVars, engVars, mapVars, fnVars>>

(***************************************************************************)
(* Gateway: handleChatCompletions up to the provider call.                 *)
(***************************************************************************)
\* Models a client may put in the request body.
ClientModels == {"", "m1"}

\* Bodies that decode: any model and stream flag with a message (messages
\* counts them, the first one being a user's), and a body without messages.
ClientBodies ==
    [model : ClientModels, stream : BOOLEAN, messages : {1}]
        \cup {[model |-> "m1", stream |-> FALSE, messages |-> 0]}

\* Faulty variant: the handler goes on after answering 400.
DecodeNoReturn ==
    /\ hpc = "start"
    /\ started
    /\ \E ok \in BOOLEAN, r \in ClientBodies :
         /\ req' = r
         /\ hpc' = "decoded"
         /\ httpStatus' = IF ok THEN httpStatus ELSE 400
    /\ UNCHANGED <<snap, snapAt, provider, out, ctxDone, rmVars, callVars, prodVars,
                   evalVars, raceVars, engVars, mapVars, fnVars>>

\* A request arrives (the server listens once Start has returned); json
\* Decode of the body: 400 on error.
Decode ==
    /\ hpc = "start"
    /\ started
    /\ \E ok \in BOOLEAN, r \in ClientBodies :
         IF ok
         THEN /\ req' = r
              /\ hpc' = "decoded"
              /\ UNCHANGED httpStatus
         ELSE /\ hpc' = "done"
              /\ httpStatus' = 400
              /\ UNCHANGED req
    /\ UNCHANGED <<snap, snapAt, provider, out, ctxDone, rmVars, callVars, prodVars,
                   evalVars, raceVars, engVars, mapVars, fnVars>>

\* strategy := s.rm.GetStrategy()
LoadStrategy ==
    /\ hpc = "decoded"
    /\ snap' = GetStrategy(CellStrategy)
    /\ snapAt' = cell
    /\ hpc' = "snapped"
    /\ UNCHANGED <<req, provider, httpStatus, out, ctxDone, rmVars, callVars,
                   prodVars, evalVars, raceVars, engVars, mapVars, fnVars>>

\* Faulty variant: a model the client supplied is kept.
overrideModelIfEmpty(r, targetModel) ==
    IF r.model # "" THEN r ELSE [r EXCEPT !.model = targetModel]

\* req.Model = targetModel
overrideModel(r, targetModel) == [r EXCEPT !.model = targetModel]

\* SelectProvider, 500 on error, else req.Model = targetModel and dispatch.
Route ==
    /\ hpc = "snapped"
    /\ \E v \in (IF GenerativeOn(GlobalConfig, engine) THEN Vectors(engine)
                                                          ELSE {vectors}) :
         LET r == SelectProvider(req, snap, engine, GlobalConfig, v) IN
           /\ vectors' = v
           /\ IF r.err
              THEN /\ hpc' = "done"
                   /\ httpStatus' = 500
                   /\ UNCHANGED <<req, provider>>
              ELSE /\ provider' = r.p
                   /\ req' = overrideModel(req, r.model)
                   /\ hpc' = IF req.stream THEN "stream" ELSE "resolve"
                   /\ UNCHANGED httpStatus
    /\ UNCHANGED <<snap, snapAt, out, ctxDone, rmVars, callVars, prodVars, evalVars,
                   raceVars, GlobalConfig, engine, mapVars, fnVars>>

\* Whether the ResponseWriter handed to the handler is an http.Flusher: the
\* handler is only registered on the net/http server's mux, whose
\* ResponseWriter is one.
WriterFlushes == {TRUE}

\* handleStream: headers, the Flusher check (500 if unsupported), make(chan).
StreamEnter ==
    /\ hpc = "stream"
    /\ \E flusher \in WriterFlushes :
         IF flusher
         THEN hpc' = "resolve" /\ UNCHANGED httpStatus
         ELSE hpc' = "done" /\ httpStatus' = 500
    /\ UNCHANGED <<req, snap, snapAt, provider, out, ctxDone, rmVars, callVars, prodVars,
                   evalVars, raceVars, engVars, mapVars, fnVars>>

\* The client goes away: the request context is cancelled.
ClientDisconnect ==
    /\ hpc \notin {"start", "done"}
    /\ ~ctxDone
    /\ ctxDone' = TRUE
    /\ UNCHANGED <<hpc, req, snap, snapAt, provider, httpStatus, out, rmVars, callVars,
                   prodVars, evalVars, raceVars, engVars, mapVars, fnVars>>

(***************************************************************************)
(* Provider: ChatCompletion / ChatCompletionStream with the 404 fallback.  *)
(***************************************************************************)
\* Replies of the upstream: a status, or 0 for a transport error.
Replies == {200, 404, 500, 0}

\* globalFallbackOn404 through the getter main wires:
\* rm.GetStrategy().FallbackOn404Enabled().
globalFallbackOn404(c) == FallbackOn404Enabled(GetStrategy(c))

\* Faulty variant: the fallback condition without the model comparison.
AsksFallbackAnyModel(attempt, st, model, kind) ==
    attempt = 1 /\ st = 404

\* The first two conjuncts of the fallback condition; shouldFallback is
\* evaluated only when they hold. The retry (attempt 2) has no such branch.
AsksFallback(attempt, st, model, kind) ==
    attempt = 1 /\ st = 404 /\ model # DefaultModel(kind)

\* Faulty variant: the retry path retries again on a 404.
OutcomeRetryAny404(attempt, st, model, kind, fb) ==
    IF st = 404 /\ fb THEN "retry"
    ELSE IF st # 200 THEN "err"
    ELSE "ok"

\* What the provider does with a reply: retry with the default model, fail,
\* or go on with the 200 response.
Outcome(attempt, st, model, kind, fb) ==
    IF AsksFallback(attempt, st, model, kind) /\ fb THEN "retry"
    ELSE IF st # 200 THEN "err"
    ELSE "ok"

\* req.Model = p.resolveModel(req.Model)
Resolve ==
    /\ hpc = "resolve"
    /\ req' = [req EXCEPT !.model = resolveModel(provider, req.model, defaultModel)]
    /\ hpc' = "post"
    /\ UNCHANGED <<snap, snapAt, provider, httpStatus, out, ctxDone, rmVars, callVars,
                   prodVars, evalVars, raceVars, engVars, mapVars, fnVars>>

\* postRequest / doRequest / doGenerateContent: one upstream request.
Post ==
    /\ hpc = "post"
    /\ Len(calls) < MaxCalls
    /\ calls' = Append(calls, req.model)
    /\ hpc' = "await"
    /\ UNCHANGED <<req, snap, snapAt, provider, httpStatus, out, ctxDone, statuses, fbStrat,
                   callResult, bodyCloses, rmVars, prodVars, evalVars, raceVars, engVars, mapVars, fnVars>>

(***************************************************************************)
(* The upstream SSE body and what each producer does with a line.          *)
(***************************************************************************)
\* "empty": an empty line; "event": a line without the `data: ` prefix;
\* "done": `data: [DONE]`; "bad": a data payload that is not JSON;
\* "meta": a JSON payload without text (no text_delta, no candidate);
\* "chunk": a payload carrying text; "ioerr": the read fails here.
LineKinds == {"empty", "event", "done", "bad", "meta", "chunk", "ioerr"}

BodiesUpTo(n) == UNION { [1..k -> LineKinds] : k \in 0..n }

\* Gemini events told apart by their candidates: "meta" lists none,
\* "noparts" one whose content has no part (a closing event with only a
\* finishReason), "chunk" one with a part, "multi" two with a part each.
GeminiKinds == LineKinds \cup {"noparts", "multi"}

GeminiBodies == UNION { [1..k -> GeminiKinds] : k \in 0..MaxBody }

\* Candidates listed by the event on a line.
Candidates(l) ==
    CASE l \in {"chunk", "noparts"} -> 1
      [] l = "multi"                -> 2
      [] OTHER                      -> 0

\* Faulty variant: no producer ends the stream on a payload that does not parse.
LineActionSkipBad(kind, l) ==
    CASE l \in {"ioerr", "done"}  -> "stop"
      [] l \in {"empty", "event", "bad"} -> "skip"
      [] l = "meta"    -> IF kind = "openai" THEN "send" ELSE "skip"
      [] l = "chunk"   -> "send"
      [] l = "noparts" -> IF kind = "openai" THEN "send" ELSE "skip"
      [] l = "multi"   -> IF kind = "anthropic" THEN "skip" ELSE "send"

\* Faulty variant: every producer ends the stream on a payload that does not parse.
LineActionStrict(kind, l) ==
    CASE l = "ioerr" -> "stop"
      [] l = "empty" -> "skip"
      [] l = "event" -> "skip"
      [] l = "done"  -> "stop"
      [] l = "bad"   -> "stop"
      [] l = "meta"  -> IF kind = "openai" THEN "send" ELSE "skip"
      [] l = "chunk" -> "send"
      [] l = "noparts" -> IF kind = "openai" THEN "send" ELSE "skip"
      [] l = "multi"   -> IF kind = "anthropic" THEN "skip" ELSE "send"

\* Faulty variant: the Gemini producer builds a chunk from a candidate
\* without parts too.
LineActionNoPartsSent(kind, l) ==
    CASE l = "ioerr" -> "stop"
      [] l = "empty" -> "skip"
      [] l = "event" -> "skip"
      [] l = "done"  -> "stop"
      [] l = "bad"   -> IF kind = "openai" THEN "stop" ELSE "skip"
      [] l = "meta"  -> IF kind = "openai" THEN "send" ELSE "skip"
      [] l = "chunk" -> "send"
      [] l = "noparts" -> IF kind = "anthropic" THEN "skip" ELSE "send"
      [] l = "multi"   -> IF kind = "anthropic" THEN "skip" ELSE "send"

\* What pipeStream does with one scanned line: "skip" it, "stop" reading,
\* or "send" a chunk built from it. The Gemini producer builds one chunk
\* from an event whose first candidate has a part, however many candidates
\* the event lists, and none from any other event.
LineAction(kind, l) ==
    CASE l = "ioerr" -> "stop"
      [] l = "empty" -> "skip"
      [] l = "event" -> "skip"
      [] l = "done"  -> "stop"
      [] l = "bad"   -> IF kind = "openai" THEN "stop" ELSE "skip"
      [] l = "meta"  -> IF kind = "openai" THEN "send" ELSE "skip"
      [] l = "chunk" -> "send"
      [] l = "noparts" -> IF kind = "openai" THEN "send" ELSE "skip"
      [] l = "multi"   -> IF kind = "anthropic" THEN "skip" ELSE "send"

\* The frame handleStream writes for the chunk built from body line i, and
\* the terminating frame.
DataFrame(i) == [kind |-> "data", id |-> i]
DoneFrame    == [kind |-> "done", id |-> 0]

\* Faulty variant: the streaming functions abandon the 404 reply they retry after.
closesAtOnceLeakRetry(stream, st, o) ==
    IF st = 0 \/ ~stream THEN 0
    ELSE IF o = "err" THEN 1
    ELSE 0

\* resp.Body.Close() calls a provider function makes on the reply it just
\* obtained before it goes on. A failed request (st = 0) has no reply. The
\* streaming functions close the reply they retry after and the one they
\* reject, and hand the 200 reply to pipeStream; the synchronous ones only
\* register `defer resp.Body.Close()`.
closesAtOnce(stream, st, o) ==
    IF st = 0 \/ ~stream THEN 0
    ELSE IF o \in {"retry", "err"} THEN 1
    ELSE 0

\* ChatCompletion returns (and chatCompletionOnce before it, if called):
\* the deferred resp.Body.Close() of every reply they obtained runs.
deferredCloses(cs, sts) ==
    [i \in DOMAIN cs |-> IF sts[i] # 0 THEN cs[i] + 1 ELSE cs[i]]

\* The reply to an upstream request arrives and the provider acts on it;
\* an error makes the handler answer 502. B: the bodies a 200 may carry.
Reply(B) ==
    /\ hpc = "await"
    /\ \E st \in Replies :
         LET attempt == Len(calls)
             kind    == Kind(provider)
             asks    == AsksFallback(attempt, st, req.model, kind)
             o       == Outcome(attempt, st, req.model, kind, globalFallbackOn404(CellStrategy))
         IN
         /\ statuses' = Append(statuses, st)
         /\ fbStrat' = IF asks THEN Append(fbStrat, GetStrategy(CellStrategy)) ELSE fbStrat
         /\ LET cs == Append(bodyCloses, closesAtOnce(req.stream, st, o))
            IN bodyCloses' = IF ~req.stream /\ o # "retry"
                             THEN deferredCloses(cs, Append(statuses, st))
                             ELSE cs
         /\ CASE o = "retry" ->
                   /\ req' = [req EXCEPT !.model = DefaultModel(kind)]
                   /\ hpc' = "post"
                   /\ UNCHANGED <<callResult, httpStatus, prodVars>>
              [] o = "err" ->
                   /\ callResult' = "err"
                   /\ httpStatus' = 502
                   /\ hpc' = "done"
                   /\ UNCHANGED <<req, prodVars>>
              [] o = "ok" /\ ~req.stream ->
                   /\ \E decoded \in BOOLEAN :
                        /\ callResult' = IF decoded THEN "ok" ELSE "err"
                        /\ httpStatus' = IF decoded THEN 200 ELSE 502
                   /\ hpc' = "done"
                   /\ UNCHANGED <<req, prodVars>>
              [] o = "ok" /\ req.stream ->
                   /\ \E b \in B : body' = b
                   /\ pos' = 0
                   /\ gpc' = "scan"
                   /\ producers' = producers + 1
                   /\ callResult' = "ok"
                   /\ hpc' = "loop"
                   /\ UNCHANGED <<req, httpStatus, pending, closeCount, sentAfterClose>>
    /\ UNCHANGED <<snap, snapAt, provider, out, ctxDone, calls, rmVars, evalVars,
                   raceVars, engVars, mapVars, fnVars>>

ReplyShort == Reply(BodiesUpTo(ShortBody))
ReplyFull  == Reply(BodiesUpTo(MaxBody))
ReplyLive  == Reply(BodiesUpTo(LiveBody))
ReplyGemini == Reply(GeminiBodies)

(***************************************************************************)
(* pipeStream: the producer goroutine.                                     *)
(***************************************************************************)
\* scanner.Scan() and the handling of the line, up to the send.
ProducerScan ==
    /\ gpc = "scan"
    /\ IF pos = Len(body)
       THEN /\ gpc' = "closing"
            /\ UNCHANGED <<pos, pending>>
       ELSE LET a == LineAction(Kind(provider), body[pos + 1]) IN
            /\ pos' = pos + 1
            /\ gpc' = CASE a = "skip" -> "scan"
                        [] a = "stop" -> "closing"
                        [] a = "send" -> "send"
            /\ pending' = IF a = "send" THEN pos + 1 ELSE pending
    /\ UNCHANGED <<body, closeCount, producers, sentAfterClose, reqVars, callVars,
                   rmVars, evalVars, raceVars, engVars, mapVars, fnVars>>

\* The body read fails because the request context is cancelled.
ProducerReadAbort ==
    /\ gpc = "scan"
    /\ ctxDone
    /\ gpc' = "closing"
    /\ UNCHANGED <<body, pos, pending, closeCount, producers, sentAfterClose,
                   reqVars, callVars, rmVars, evalVars, raceVars, engVars, mapVars, fnVars>>

\* Faulty variant: a bare `streamChan <- chunk`, with no ctx.Done() case.
ProducerSendBlocking ==
    /\ gpc = "send"
    /\ FALSE
    /\ UNCHANGED vars

\* select { case <-ctx.Done(): return ... } while trying to send.
ProducerSendAbort ==
    /\ gpc = "send"
    /\ ctxDone
    /\ gpc' = "closing"
    /\ pending' = 0
    /\ UNCHANGED <<body, pos, closeCount, producers, sentAfterClose, reqVars,
                   callVars, rmVars, evalVars, raceVars, engVars, mapVars, fnVars>>

\* Faulty variant: the producer returns without closing the channel.
ProducerExitNoClose ==
    /\ gpc = "closing"
    /\ gpc' = "done"
    /\ bodyCloses' = [bodyCloses EXCEPT ![Len(bodyCloses)] = @ + 1]
    /\ UNCHANGED <<body, pos, pending, closeCount, producers, sentAfterClose, reqVars,
                   calls, statuses, fbStrat, callResult, rmVars, evalVars, raceVars,
                   engVars, mapVars, fnVars>>

\* The deferred close(streamChan) and resp.Body.Close().
ProducerExit ==
    /\ gpc = "closing"
    /\ closeCount' = closeCount + 1
    /\ bodyCloses' = [bodyCloses EXCEPT ![Len(bodyCloses)] = @ + 1]
    /\ gpc' = "done"
    /\ UNCHANGED <<body, pos, pending, producers, sentAfterClose, reqVars, calls,
                   statuses, fbStrat, callResult, rmVars, evalVars, raceVars, engVars, mapVars, fnVars>>

(***************************************************************************)
(* handleStream: the forwarding loop.                                      *)
(***************************************************************************)
\* case <-r.Context().Done(): return
HandlerCtxDone ==
    /\ hpc = "loop"
    /\ ctxDone
    /\ hpc' = "done"
    /\ httpStatus' = 200
    /\ UNCHANGED <<req, snap, snapAt, provider, out, ctxDone, callVars, prodVars, rmVars,
                   evalVars, raceVars, engVars, mapVars, fnVars>>

\* case chunk, ok := <-streamChan with ok: the producer's send and the
\* handler's receive meet; the frame is written and flushed.
HandlerRecv ==
    /\ hpc = "loop"
    /\ gpc = "send"
    /\ out' = Append(out, DataFrame(pending))
    /\ gpc' = "scan"
    /\ pending' = 0
    /\ sentAfterClose' = (sentAfterClose \/ closeCount > 0)
    /\ UNCHANGED <<hpc, req, snap, snapAt, provider, httpStatus, ctxDone, body, pos,
                   closeCount, producers, callVars, rmVars, evalVars, raceVars,
                   engVars, mapVars, fnVars>>

\* Faulty variant: the handler returns on the closed channel without the [DONE] frame.
HandlerClosedSilent ==
    /\ hpc = "loop"
    /\ closeCount > 0
    /\ hpc' = "done"
    /\ httpStatus' = 200
    /\ UNCHANGED <<req, snap, snapAt, provider, out, ctxDone, callVars, prodVars, rmVars,
                   evalVars, raceVars, engVars, mapVars, fnVars>>

\* case chunk, ok := <-streamChan with !ok: write the [DONE] frame, return.
HandlerClosed ==
    /\ hpc = "loop"
    /\ closeCount > 0
    /\ out' = Append(out, DoneFrame)
    /\ hpc' = "done"
    /\ httpStatus' = 200
    /\ UNCHANGED <<req, snap, snapAt, provider, ctxDone, callVars, prodVars, rmVars,
                   evalVars, raceVars, engVars, mapVars, fnVars>>

(***************************************************************************)
(* EvaluateAll: the evaluator pool.                                        *)
(***************************************************************************)
\* timeout := 10 * time.Second, in milliseconds.
DefaultTimeoutMs == 10000

EvalNames == {"a", "b"}
Scores    == {0, 1}

\* An evaluator: its Name() and whether its Evaluate observes the context
\* (the LLM evaluators do; the built-in one and a sleeping stub do not).
Evaluators == [name : EvalNames, honors : BOOLEAN]

EvalLists == UNION { [1..k -> Evaluators] : k \in 0..MaxEvals }

\* globalTimeoutMs arguments.
GTimeouts == {0, 1, 2}

\* Lines 16-19: the timeout of the derived context.
Timeout(g) == IF g > 0 THEN g ELSE DefaultTimeoutMs

\* Faulty variant: the pool returns without waiting for its tasks.
WaitReadyNoWait(t) == TRUE

\* g.Wait(): every spawned task has returned.
WaitReady(t) == \A i \in DOMAIN t : t[i] = "done"

\* Whether Evaluate may still succeed at time n: an evaluator that observes
\* the context fails once the deadline has passed.
MaySucceed(e, n, d) == ~e.honors \/ n < d

\* EvaluateAll is called: context.WithTimeout(ctx, timeout).
EvalCall ==
    /\ epc = "idle"
    /\ startAt' = now
    /\ deadline' = now + Timeout(gTimeout)
    /\ epc' = "spawn"
    /\ UNCHANGED <<evals, gTimeout, now, spawned, task, taskRes, finishedLate, results,
                   writer, returnedAt, lateWrite, rmVars, reqVars, callVars,
                   prodVars, raceVars, engVars, mapVars, fnVars>>

\* g.Go(func() error {...}) for the next evaluator.
Spawn ==
    /\ epc = "spawn"
    /\ spawned < Len(evals)
    /\ spawned' = spawned + 1
    /\ task' = [task EXCEPT ![spawned + 1] = "running"]
    /\ UNCHANGED <<epc, evals, gTimeout, now, startAt, deadline, taskRes, finishedLate,
                   results, writer, returnedAt, lateWrite, rmVars, reqVars, callVars,
                   prodVars, raceVars, engVars, mapVars, fnVars>>

\* Faulty variant: a failed evaluator gets a filler entry in the map.
TaskEvaluateFiller(i) ==
    /\ task[i] = "running"
    /\ finishedLate' = [finishedLate EXCEPT ![i] = (now > deadline)]
    /\ \E ok \in BOOLEAN, sc \in Scores :
         /\ ok => MaySucceed(evals[i], now, deadline)
         /\ task' = [task EXCEPT ![i] = "store"]
         /\ IF ok THEN taskRes' = [taskRes EXCEPT ![i] = sc] ELSE UNCHANGED taskRes
    /\ UNCHANGED <<epc, evals, gTimeout, now, startAt, deadline, spawned, results,
                   writer, returnedAt, lateWrite, rmVars, reqVars, callVars,
                   prodVars, raceVars, engVars, mapVars, fnVars>>

\* ev.Evaluate returns in task i: an error ends the task, a result is kept
\* for the write.
TaskEvaluate(i) ==
    /\ task[i] = "running"
    /\ finishedLate' = [finishedLate EXCEPT ![i] = (now > deadline)]
    /\ \E ok \in BOOLEAN, sc \in Scores :
         /\ ok => MaySucceed(evals[i], now, deadline)
         /\ IF ok
            THEN /\ task' = [task EXCEPT ![i] = "store"]
                 /\ taskRes' = [taskRes EXCEPT ![i] = sc]
            ELSE /\ task' = [task EXCEPT ![i] = "done"]
                 /\ UNCHANGED taskRes
    /\ UNCHANGED <<epc, evals, gTimeout, now, startAt, deadline, spawned, results,
                   writer, returnedAt, lateWrite, rmVars, reqVars, callVars,
                   prodVars, raceVars, engVars, mapVars, fnVars>>

\* mu.Lock(); results[ev.Name()] = res.Score; mu.Unlock(); return nil
TaskStore(i) ==
    /\ task[i] = "store"
    /\ LET n == evals[i].name IN
         /\ results' = [k \in DOMAIN results \cup {n} |->
                            IF k = n THEN taskRes[i] ELSE results[k]]
         /\ writer' = [k \in DOMAIN writer \cup {n} |->
                            IF k = n THEN i ELSE writer[k]]
    /\ lateWrite' = (lateWrite \/ epc = "returned")
    /\ task' = [task EXCEPT ![i] = "done"]
    /\ UNCHANGED <<epc, evals, gTimeout, now, startAt, deadline, spawned, taskRes,
                   finishedLate, returnedAt, rmVars, reqVars, callVars, prodVars,
                   raceVars, engVars, mapVars, fnVars>>

TaskStep == \E i \in DOMAIN task : TaskEvaluate(i) \/ TaskStore(i)

\* _ = g.Wait(); return results
EvalReturn ==
    /\ epc = "spawn"
    /\ spawned = Len(evals)
    /\ WaitReady(task)
    /\ epc' = "returned"
    /\ returnedAt' = now
    /\ UNCHANGED <<evals, gTimeout, now, startAt, deadline, spawned, task, taskRes,
                   finishedLate, results, writer, lateWrite, rmVars, reqVars, callVars,
                   prodVars, raceVars, engVars, mapVars, fnVars>>

\* A step that takes no time is pending: the spawn loop, a write to the map,
\* the return from g.Wait().
Immediate ==
    \/ epc = "spawn" /\ spawned < Len(evals)
    \/ \E i \in DOMAIN task : task[i] = "store"
    \/ epc = "spawn" /\ spawned = Len(evals) /\ WaitReady(task)

\* Time passes (measured from the call), up to MaxTime and to just past the
\* deadline. Only an Evaluate takes time, and one that observes the context
\* has returned when the deadline passes.
Tick ==
    /\ epc # "idle"
    /\ ~Immediate
    /\ \E t \in {now + 1, deadline, deadline + 1} :
         /\ t > now
         /\ t <= MaxTime \/ t \in {deadline, deadline + 1}
         /\ \A i \in DOMAIN task :
              (task[i] = "running" /\ evals[i].honors) => t <= deadline
         /\ now' = t
    /\ UNCHANGED <<epc, evals, gTimeout, startAt, deadline, spawned, task, taskRes,
                   finishedLate, results, writer, returnedAt, lateWrite, rmVars, reqVars,
                   callVars, prodVars, raceVars, engVars, mapVars, fnVars>>

(***************************************************************************)
(* Provider.defaultModel under concurrent SetDefaultModel / resolveModel.  *)
(* A Go string is two words, a data pointer and a length; each word is     *)
(* tagged here with the string it belongs to, so a value assembled from    *)
(* the words of two different strings is visible.                          *)
(***************************************************************************)
Writers == 1..MaxWriters
Readers == 1..MaxReaders

\* The model name the i-th caller passes to SetDefaultModel.
WrittenModel(i) == "w" \o ToString(i)

\* The two words of a whole string.
StrWords(str) == [ptr |-> str, len |-> str]

\* Faulty variant: SetDefaultModel goes on without taking the lock.
SetLockFree(i) ==
    /\ wpc[i] = "start"
    /\ wpc' = [wpc EXCEPT ![i] = "ptr"]
    /\ UNCHANGED <<mu, dmWords, rpc, rloc, rres, rmVars, reqVars, callVars, prodVars,
                   evalVars, engVars, mapVars, fnVars>>

\* p.mu.Lock(): granted when no writer and no reader holds the lock.
SetLock(i) ==
    /\ wpc[i] = "start"
    /\ mu.writer = 0
    /\ mu.readers = {}
    /\ mu' = [mu EXCEPT !.writer = i]
    /\ wpc' = [wpc EXCEPT ![i] = "ptr"]
    /\ UNCHANGED <<dmWords, rpc, rloc, rres, rmVars, reqVars, callVars, prodVars,
                   evalVars, engVars, mapVars, fnVars>>

\* p.defaultModel = model: the store of the data pointer ...
SetPtr(i) ==
    /\ wpc[i] = "ptr"
    /\ dmWords' = [dmWords EXCEPT !.ptr = WrittenModel(i)]
    /\ wpc' = [wpc EXCEPT ![i] = "len"]
    /\ UNCHANGED <<mu, rpc, rloc, rres, rmVars, reqVars, callVars, prodVars, evalVars,
                    engVars, mapVars, fnVars>>

\* ... and the store of the length.
SetLen(i) ==
    /\ wpc[i] = "len"
    /\ dmWords' = [dmWords EXCEPT !.len = WrittenModel(i)]
    /\ wpc' = [wpc EXCEPT ![i] = "unlock"]
    /\ UNCHANGED <<mu, rpc, rloc, rres, rmVars, reqVars, callVars, prodVars, evalVars,
                    engVars, mapVars, fnVars>>

\* p.mu.Unlock()
SetUnlock(i) ==
    /\ wpc[i] = "unlock"
    /\ mu' = [mu EXCEPT !.writer = IF @ = i THEN 0 ELSE @]
    /\ wpc' = [wpc EXCEPT ![i] = "done"]
    /\ UNCHANGED <<dmWords, rpc, rloc, rres, rmVars, reqVars, callVars, prodVars,
                   evalVars, engVars, mapVars, fnVars>>

SetDefaultModel(i) == SetLock(i) \/ SetPtr(i) \/ SetLen(i) \/ SetUnlock(i)

\* resolveModel(""): p.mu.RLock(), granted when no writer holds the lock.
ResolveRLock(j) ==
    /\ rpc[j] = "start"
    /\ mu.writer = 0
    /\ mu' = [mu EXCEPT !.readers = @ \cup {j}]
    /\ rpc' = [rpc EXCEPT ![j] = "ptr"]
    /\ UNCHANGED <<dmWords, wpc, rloc, rres, rmVars, reqVars, callVars, prodVars,
                   evalVars, engVars, mapVars, fnVars>>

\* m := p.defaultModel: the load of the data pointer ...
ResolveReadPtr(j) ==
    /\ rpc[j] = "ptr"
    /\ rloc' = [rloc EXCEPT ![j].ptr = dmWords.ptr]
    /\ rpc' = [rpc EXCEPT ![j] = "len"]
    /\ UNCHANGED <<mu, dmWords, wpc, rres, rmVars, reqVars, callVars, prodVars,
                   evalVars, engVars, mapVars, fnVars>>

\* ... and the load of the length.
ResolveReadLen(j) ==
    /\ rpc[j] = "len"
    /\ rloc' = [rloc EXCEPT ![j].len = dmWords.len]
    /\ rpc' = [rpc EXCEPT ![j] = "unlock"]
    /\ UNCHANGED <<mu, dmWords, wpc, rres, rmVars, reqVars, callVars, prodVars,
                   evalVars, engVars, mapVars, fnVars>>

\* p.mu.RUnlock(); return m if it is not empty (its length is not zero),
\* else the compile-time DefaultModel.
ResolveReturn(j) ==
    /\ rpc[j] = "unlock"
    /\ mu' = [mu EXCEPT !.readers = @ \ {j}]
    /\ rres' = [rres EXCEPT ![j] = IF rloc[j].len # "" THEN rloc[j]
                                   ELSE StrWords(DefaultModel("openai"))]
    /\ rpc' = [rpc EXCEPT ![j] = "done"]
    /\ UNCHANGED <<dmWords, wpc, rloc, rmVars, reqVars, callVars, prodVars, evalVars,
                    engVars, mapVars, fnVars>>

ResolveCall(j) ==
    ResolveRLock(j) \/ ResolveReadPtr(j) \/ ResolveReadLen(j) \/ ResolveReturn(j)

(***************************************************************************)
(* RemoteStrategy.FallbackOn404Enabled called on its own.                  *)
(***************************************************************************)
\* Receivers: a nil pointer, the empty strategy, and strategies with the
\* field absent, true and false.
Receivers == {NilStrategy, ZeroStrategy} \cup FetchedStrategies

\* No call yet.
NoFlagCall == [pc |-> "none", rs |-> NilStrategy, enabled |-> FALSE]

\* rs.FallbackOn404Enabled()
FallbackOn404EnabledCall ==
    /\ flag.pc = "none"
    /\ \E rs \in Receivers :
         flag' = [pc |-> "done", rs |-> rs, enabled |-> FallbackOn404Enabled(rs)]
    /\ UNCHANGED <<rmVars, reqVars, callVars, prodVars, evalVars, raceVars, engVars,
                   mapVars, gem, sse, olm>>

(***************************************************************************)
(* Initial states and specifications.                                      *)
(***************************************************************************)
\* After main: the providers are built with their configured defaults and
\* Start has made its initial fetch (which may have failed).
InitRM ==
    /\ \E d \in ConfiguredDefaults, s \in {ZeroStrategy} \cup FetchedStrategies :
         /\ cell = IF s = ZeroStrategy THEN 0 ELSE 1
         /\ heap = [a \in {cell} |-> s]
         /\ defaultModel = applyProviderModels([p \in Registered |-> d], s.ProviderModels)
    /\ fetches = 1
    /\ fpc = "idle"
    /\ started = TRUE
    /\ interval \in PollIntervals
    /\ interval > 0
    /\ ticker = "running"

\* NewRemoteManager: the cell holds an empty strategy, nothing fetched yet;
\* the providers are built with their configured defaults.
NewRemoteManager ==
    /\ cell = 0
    /\ heap = [a \in {0} |-> ZeroStrategy]
    /\ \E d \in ConfiguredDefaults : defaultModel = [p \in Registered |-> d]
    /\ fetches = 0
    /\ fpc = "idle"
    /\ started = FALSE
    /\ interval \in PollIntervals
    /\ ticker = "none"

(***************************************************************************)
(* The Gemini provider's error strings. A string is a sequence of          *)
(* characters: "k" and "a" are ordinary characters, "%" is a character     *)
(* that makes a URL unparsable (a bad escape, a control character); the    *)
(* longer symbols stand for fixed text without either.                     *)
(***************************************************************************)
Strings(alphabet, n) == UNION { [1..k -> alphabet] : k \in 0..n }

\* API keys the provider may be built with: non-empty.
ApiKeys == Strings({"k", "a"}, MaxKey) \ {<<>>}

\* Model names a request may arrive with.
GeminiModels == {<<"a">>, <<"k">>, <<"a", "%">>}

\* Bodies of an upstream error reply: it may quote the key it was sent.
ErrBodies == Strings({"k", "a"}, MaxErrBody)

\* strings.Contains
Contains(str, sub) ==
    \E i \in 1..(Len(str) - Len(sub) + 1) : SubSeq(str, i, i + Len(sub) - 1) = sub

\* strings.ReplaceAll for a non-empty old: the non-overlapping occurrences,
\* left to right.
RECURSIVE ReplaceAll(_, _, _)
ReplaceAll(str, old, new) ==
    IF Len(str) < Len(old) THEN str
    ELSE IF SubSeq(str, 1, Len(old)) = old
         THEN new \o ReplaceAll(SubSeq(str, Len(old) + 1, Len(str)), old, new)
         ELSE <<str[1]>> \o ReplaceAll(Tail(str), old, new)

\* redactKey
redactKey(key, str) ==
    IF key = <<>> THEN str ELSE ReplaceAll(str, key, <<"***">>)

\* fmt.Sprintf("%s%s:generateContent?key=%s", p.baseURL, model, p.apiKey)
GeminiURL(model, key) == <<"base/">> \o model \o <<":generateContent?key=">> \o key

\* url.Parse rejects the URL.
BadURL(url) == \E i \in DOMAIN url : url[i] = "%"

\* (*url.Error).Error(): the operation, the URL, the cause.
URLError(op, url, cause) == <<op>> \o url \o <<cause>>

\* No Gemini provider is in use.
NoGemini == [apiKey |-> <<>>, model |-> <<>>, pc |-> "none", attempt |-> 0,
             err |-> <<>>, logs |-> <<>>]

\* NewProvider(apiKey, ...) and a ChatCompletion call that resolved its model.
GeminiCall ==
    /\ gem.pc = "none"
    /\ \E key \in ApiKeys, m \in GeminiModels :
         gem' = [NoGemini EXCEPT !.apiKey = key, !.model = m, !.pc = "request",
                                 !.attempt = 1]
    /\ UNCHANGED <<rmVars, reqVars, callVars, prodVars, evalVars, raceVars, engVars,
                   mapVars, sse, olm, flag>>

\* doGenerateContent: http.NewRequestWithContext fails on the URL and its
\* error is returned as it is; else the request is sent.
GeminiNewRequest ==
    /\ gem.pc = "request"
    /\ LET url == GeminiURL(gem.model, gem.apiKey) IN
       IF BadURL(url)
       THEN gem' = [gem EXCEPT !.pc = "done",
                               !.err = URLError("parse ", url, ": invalid URL escape")]
       ELSE gem' = [gem EXCEPT !.pc = "sent"]
    /\ UNCHANGED <<rmVars, reqVars, callVars, prodVars, evalVars, raceVars, engVars,
                   mapVars, sse, olm, flag>>

\* doGenerateContent: p.client.Do fails; the error is redacted, logged
\* and returned.
GeminiDoFail ==
    /\ gem.pc = "sent"
    /\ LET safeErr == redactKey(gem.apiKey,
                                URLError("Post ", GeminiURL(gem.model, gem.apiKey),
                                         ": dial tcp"))
       IN gem' = [gem EXCEPT !.pc = "done", !.err = safeErr,
                             !.logs = Append(@, safeErr)]
    /\ UNCHANGED <<rmVars, reqVars, callVars, prodVars, evalVars, raceVars, engVars,
                   mapVars, sse, olm, flag>>

\* ChatCompletion / chatCompletionOnce on the reply: a 404 on the first
\* attempt may be retried with the default model; any other non-200 reply
\* gives an error quoting the body, redacted, logged and returned; a 200
\* reply is decoded.
GeminiReply ==
    /\ gem.pc = "sent"
    /\ \/ /\ gem.attempt = 1
          /\ gem.model # <<"a">>
          /\ gem' = [gem EXCEPT !.model = <<"a">>, !.attempt = 2, !.pc = "request"]
       \/ \E b \in ErrBodies :
            LET safeErr == redactKey(gem.apiKey, <<"google api error: ">> \o b)
            IN gem' = [gem EXCEPT !.pc = "done", !.err = safeErr,
                                  !.logs = Append(@, safeErr)]
       \/ \E decoded \in BOOLEAN :
            gem' = [gem EXCEPT !.pc = "done",
                               !.err = IF decoded THEN <<>> ELSE <<"json: syntax error">>]
    /\ UNCHANGED <<rmVars, reqVars, callVars, prodVars, evalVars, raceVars, engVars,
                   mapVars, sse, olm, flag>>

(***************************************************************************)
(* ProcessSSEStream, on its own. The lines are those of LineKinds; the     *)
(* lines prefixed `data: ` other than `data: [DONE]` are "bad", "meta"     *)
(* and "chunk". The callback is given by the kinds of payload it returns   *)
(* an error on.                                                            *)
(***************************************************************************)
DataKinds == {"bad", "meta", "chunk"}

\* Callbacks: one that never fails, one that rejects what does not parse,
\* one that also fails on a chunk (its consumer went away).
Callbacks == {{}, {"bad"}, {"bad", "chunk"}}

\* Faulty variant: the callback's error is dropped and the loop goes on.
sseLineIgnoreError(l, fails) ==
    CASE l = "ioerr"     -> "stop"
      [] l = "empty"     -> "skip"
      [] l = "done"      -> "stop"
      [] l \in DataKinds -> "call"
      [] OTHER           -> "skip"

\* One turn of the loop on line l: "skip" it, "stop" the loop (the scan
\* failed, or the line is `data: [DONE]`), "call" the callback and go on,
\* or call it and "return" its error.
sseLine(l, fails) ==
    CASE l = "ioerr"     -> "stop"
      [] l = "empty"     -> "skip"
      [] l = "done"      -> "stop"
      [] l \in DataKinds -> IF l \in fails THEN "return" ELSE "call"
      [] OTHER           -> "skip"

\* The loop from line i on; called: the lines the callback was invoked on.
RECURSIVE sseLoop(_, _, _, _)
sseLoop(lines, i, fails, called) ==
    IF i > Len(lines) THEN called
    ELSE LET a == sseLine(lines[i], fails) IN
         CASE a = "skip"   -> sseLoop(lines, i + 1, fails, called)
           [] a = "stop"   -> called
           [] a = "call"   -> sseLoop(lines, i + 1, fails, Append(called, i))
           [] a = "return" -> Append(called, i)

\* No call of ProcessSSEStream yet.
NoSSE == [pc |-> "none", lines |-> <<>>, fails |-> {}, called |-> <<>>]

\* ProcessSSEStream(r, onData), from the call to the return.
ProcessSSEStream ==
    /\ sse.pc = "none"
    /\ \E lines \in BodiesUpTo(MaxBody), fails \in Callbacks :
         sse' = [pc |-> "done", lines |-> lines, fails |-> fails,
                 called |-> sseLoop(lines, 1, fails, <<>>)]
    /\ UNCHANGED <<rmVars, reqVars, callVars, prodVars, evalVars, raceVars, engVars,
                   mapVars, gem, olm, flag>>

(***************************************************************************)
(* LLMLogprobEvaluator.evaluateOllama: the score read from the content.    *)
(***************************************************************************)
\* Characters of a reply's content: digits, a space, a letter.
ContentChars == {"0", "1", "7", " ", "x"}

OllamaContents == Strings(ContentChars, MaxContent)

\* The value of a decimal digit.
DigitValue(c) == CASE c = "0" -> 0 [] c = "1" -> 1 [] c = "7" -> 7

\* strings.TrimSpace
RECURSIVE TrimLeft(_)
TrimLeft(str) ==
    IF str # <<>> /\ str[1] = " " THEN TrimLeft(Tail(str)) ELSE str

RECURSIVE TrimRight(_)
TrimRight(str) ==
    IF str # <<>> /\ str[Len(str)] = " "
    THEN TrimRight(SubSeq(str, 1, Len(str) - 1))
    ELSE str

TrimSpace(str) == TrimRight(TrimLeft(str))

\* strconv.ParseFloat on a single character: a digit parses, nothing else.
ParseFloat1(c) ==
    IF c \in {"0", "1", "7"} THEN [err |-> FALSE, val |-> DigitValue(c)]
    ELSE [err |-> TRUE, val |-> 0]

\* The score of a trimmed non-empty content: the first character as a
\* number if it parses, else the first 0 or 1 found, else an error.
scoreOfContent(content) ==
    LET first == ParseFloat1(content[1])
        at    == { i \in DOMAIN content : content[i] \in {"0", "1"} }
    IN IF ~first.err THEN [err |-> FALSE, score |-> first.val]
       ELSE IF at = {} THEN [err |-> TRUE, score |-> 0]
       ELSE [err |-> FALSE,
             score |-> DigitValue(content[CHOOSE i \in at : \A j \in at : i <= j])]

\* No call yet.
NoOllama == [pc |-> "none", reply |-> "", content |-> <<>>, err |-> FALSE, score |-> 0]

\* evaluateOllama, from the request to the return: the request fails, the
\* status is not 200, the body is not the expected JSON, or it carries a
\* content.
evaluateOllama ==
    /\ olm.pc = "none"
    /\ \/ \E r \in {"network", "status", "json"} :
            olm' = [NoOllama EXCEPT !.pc = "done", !.reply = r, !.err = TRUE]
       \/ \E c \in OllamaContents :
            LET t == TrimSpace(c)
                res == IF t = <<>> THEN [err |-> TRUE, score |-> 0] ELSE scoreOfContent(t)
            IN olm' = [pc |-> "done", reply |-> "ok", content |-> c,
                       err |-> res.err, score |-> res.score]
    /\ UNCHANGED <<rmVars, reqVars, callVars, prodVars, evalVars, raceVars, engVars,
                   mapVars, gem, sse, flag>>

(***************************************************************************)
(* The Anthropic request mapping.                                          *)
(***************************************************************************)
\* areq.MaxTokens = 4096 when the request gave none.
DefaultMaxTokens == 4096

\* Roles a client may send, in any letter case.
Roles == {"system", "System", "user", "User", "assistant", "function"}

Contents == {"a", "b"}

\* models.Message
ChatMessages == [Role : Roles, Content : Contents]

\* A ChatCompletionRequest, as far as mapRequest reads it.
MkChat(msgs, mt) == [Messages |-> msgs, MaxTokens |-> mt]

\* No anthropicRequest built yet.
NilAreq == [ptr |-> "nil", System |-> "", Messages |-> <<>>, MaxTokens |-> 0]

\* strings.ToLower on a role.
ToLower(role) ==
    CASE role = "System" -> "system"
      [] role = "User"   -> "user"
      [] OTHER           -> role

\* role := strings.ToLower(m.Role); anything but user and assistant is user.
anthropicRole(role) ==
    IF ToLower(role) \notin {"user", "assistant"} THEN "user" ELSE ToLower(role)

\* The loop of mapRequest from message i on: a system message sets areq.System
\* and is skipped, any other is appended with its mapped role.
RECURSIVE mapMessages(_, _, _)
mapMessages(msgs, i, a) ==
    IF i > Len(msgs) THEN a
    ELSE IF ToLower(msgs[i].Role) = "system"
         THEN mapMessages(msgs, i + 1, [a EXCEPT !.System = msgs[i].Content])
         ELSE mapMessages(msgs, i + 1,
                          [a EXCEPT !.Messages =
                               Append(@, [Role    |-> anthropicRole(msgs[i].Role),
                                          Content |-> msgs[i].Content])])

mapRequest(c) ==
    mapMessages(c.Messages, 1,
                [ptr |-> "set", System |-> "", Messages |-> <<>>,
                 MaxTokens |-> IF c.MaxTokens = 0 THEN DefaultMaxTokens
                               ELSE c.MaxTokens])

\* areq := mapRequest(req)
MapRequest ==
    /\ areq.ptr = "nil"
    /\ chat.Messages # <<>>
    /\ areq' = mapRequest(chat)
    /\ UNCHANGED <<chat, rmVars, reqVars, callVars, prodVars, evalVars, raceVars, engVars,
                   fnVars>>

\* The handler is at position h with request r and strategy s in hand;
\* nothing was sent upstream yet.
InitReqWith(h, r, s, c) ==
    /\ hpc = h
    /\ req = r
    /\ snap = s
    /\ snapAt = -1
    /\ provider = ""
    /\ httpStatus = 0
    /\ out = <<>>
    /\ ctxDone = FALSE
    /\ calls = <<>>
    /\ statuses = <<>>
    /\ fbStrat = <<>>
    /\ callResult = "none"
    /\ bodyCloses = <<>>
    /\ body = <<>>
    /\ pos = 0
    /\ gpc = "none"
    /\ pending = 0
    /\ closeCount = 0
    /\ producers = 0
    /\ sentAfterClose = FALSE
    /\ chat = c
    /\ areq = NilAreq
    /\ gem = NoGemini
    /\ sse = NoSSE
    /\ olm = NoOllama
    /\ flag = NoFlagCall

\* A request whose messages play no part.
InitReqAt(h, r, s) == InitReqWith(h, r, s, MkChat(<<>>, 0))

\* No request yet.
InitReq == InitReqAt("start", [model |-> "", stream |-> FALSE, messages |-> 0], ZeroStrategy)

\* NewEngine(pm) under the configuration gc, which built the evaluators evs.
InitEngine(gc, pm, evs) ==
    /\ GlobalConfig = gc
    /\ engine = [providerMap |-> pm, evaluators |-> evs]
    /\ vectors = NoVector

\* main's engine with no generative_routing section configured.
InitEngineOff == InitEngine(MkConfig(NilGenerative, ""), Registered, <<>>)

\* EvaluateAll not called; es and g are the arguments it will be given.
InitEvalWith(es, g) ==
    /\ epc = "idle"
    /\ evals = es
    /\ gTimeout = g
    /\ now = 0
    /\ startAt = 0
    /\ deadline = 0
    /\ spawned = 0
    /\ task = [i \in 1..Len(es) |-> "unspawned"]
    /\ taskRes = [i \in 1..Len(es) |-> -1]
    /\ finishedLate = [i \in 1..Len(es) |-> FALSE]
    /\ results = [k \in {} |-> 0]
    /\ writer = [k \in {} |-> 0]
    /\ returnedAt = -1
    /\ lateWrite = FALSE

\* The provider's lock is free and its field holds the string d; ws and rs
\* are the callers of SetDefaultModel and resolveModel there will be.
InitRaceWith(d, ws, rs) ==
    /\ mu = [writer |-> 0, readers |-> {}]
    /\ dmWords = StrWords(d)
    /\ wpc = [i \in ws |-> "start"]
    /\ rpc = [j \in rs |-> "start"]
    /\ rloc = [j \in rs |-> StrWords("")]
    /\ rres = [j \in rs |-> StrWords("")]

\* The gateway with generative routing off.
Init ==
    /\ InitRM
    /\ InitReq
    /\ InitEvalWith(<<>>, 0)
    /\ InitRaceWith("", {}, {})
    /\ InitEngineOff

\* main before rm.Start(): the manager is constructed, no fetch was made.
BootAny ==
    /\ NewRemoteManager
    /\ InitReq
    /\ InitEvalWith(<<>>, 0)
    /\ InitRaceWith("", {}, {})
    /\ InitEngineOff

\* The same, for a configuration with a positive poll_interval.
Boot == BootAny /\ interval > 0

\* A provider built with a configured default, and its concurrent callers.
InitRace ==
    /\ NewRemoteManager
    /\ InitReq
    /\ InitEvalWith(<<>>, 0)
    /\ InitRaceWith(defaultModel["openai"], Writers, Readers)
    /\ InitEngineOff

\* The evaluator pool on its own, the gateway idle.
InitEval ==
    /\ cell = 0
    /\ heap = [a \in {0} |-> ZeroStrategy]
    /\ defaultModel = [p \in Registered |-> ""]
    /\ fetches = 0
    /\ fpc = "idle"
    /\ started = TRUE
    /\ interval \in PollIntervals
    /\ interval > 0
    /\ ticker = "running"
    /\ InitReq
    /\ \E es \in EvalLists, g \in GTimeouts : InitEvalWith(es, g)
    /\ InitRaceWith("", {}, {})
    /\ InitEngineOff

\* ---- inputs of SelectProvider ----
\* Conditions of resolution rules: "complexity > 0" and a malformed one.
Conditions == {Cond("and", <<Cmp("gt", "complexity", 0)>>), Cond("bad", <<>>)}

\* Resolution rules and rule lists.
Rules     == [Condition : Conditions, TargetProvider : {"anthropic", "deepseek"}]
RuleLists == UNION { [1..k -> Rules] : k \in 0..MaxRules }

\* resolution_strategy sections: none, strict_local_first, dynamic_expression.
Resolutions ==
    {MkResolution("", <<>>, "")}
    \cup {MkResolution("strict_local_first", <<>>, dp) : dp \in {"", "openai"}}
    \cup {MkResolution("dynamic_expression", rl, dp) :
             rl \in RuleLists, dp \in {"", "openai"}}

\* config.GlobalConfig values.
\* remote_strategy.expression values.
Expressions ==
    {"invalid + )", "Req.Messages[0].Role == 'user' ? 'google' : 'openai'", "1 + 1",
     "'unknown_provider'", "'google'",
     "Cfg.Strategy == 'remote' ? 'anthropic' : 'local_vllm'"}

\* config.GlobalConfig values: every generative_routing section without a
\* routing expression, and every routing expression with no such section
\* and with one whose target is deepseek.
Configs ==
    {NilConfig, MkConfig(NilGenerative, "")}
    \cup {MkConfig(MkGenerative(en, fb, res), "") :
             en \in BOOLEAN, fb \in {"", "google", "deepseek"}, res \in Resolutions}
    \cup {MkConfig(g, x) :
             g \in {NilGenerative,
                    MkGenerative(TRUE, "deepseek", MkResolution("", <<>>, ""))},
             x \in Expressions}

\* The evaluators NewEngine builds: none unless generative routing is
\* enabled, else those of the configured list that could be constructed.
EngineEvaluators(gc) ==
    IF gc.ptr = "set" /\ gc.GenerativeRouting.ptr = "set" /\ gc.GenerativeRouting.Enabled
    THEN {<<>>, <<"complexity">>, <<"complexity", "context_rel", "length_check">>}
    ELSE {<<>>}

\* Provider maps the engine may be given.
ProviderMaps ==
    {{}, {"local_vllm"}, {"google", "local_vllm"}, {"openai", "anthropic"}, Registered}

\* Strategies SelectProvider may be given: nil, empty, fetched ones, and one
\* with an unknown Strategy value.
RoutedStrategies ==
    {NilStrategy, ZeroStrategy, MkStrategy("unknown", "", "", "", NoModels, "nil")}
    \cup FetchedStrategies

\* A request decoded and a strategy in hand, SelectProvider about to be
\* called, for every configuration, engine, request model and strategy.
InitRoute ==
    /\ cell = 0
    /\ heap = [a \in {0} |-> ZeroStrategy]
    /\ defaultModel = [p \in Registered |-> ""]
    /\ fetches = 0
    /\ fpc = "idle"
    /\ started = TRUE
    /\ interval = 1
    /\ ticker = "running"
    /\ \E m \in {"", "m0"}, rs \in RoutedStrategies :
         InitReqAt("snapped",
                   [model |-> m, stream |-> FALSE, messages |-> IF m = "" THEN 0 ELSE 1],
                   rs)
    /\ InitEvalWith(<<>>, 0)
    /\ InitRaceWith("", {}, {})
    /\ \E gc \in Configs, pm \in ProviderMaps :
         \E evs \in EngineEvaluators(gc) : InitEngine(gc, pm, evs)

Poller == FetchFail \/ FetchUnmarshal \/ FetchStore \/ FetchApply \/ TickerStart

Gateway == Decode \/ LoadStrategy \/ Route \/ StreamEnter \/ ClientDisconnect

ProviderCall == Resolve \/ Post

Producer == ProducerScan \/ ProducerReadAbort \/ ProducerSendAbort \/ ProducerExit

HandlerLoop == HandlerCtxDone \/ HandlerRecv \/ HandlerClosed

\* Start and the poller, and one request served meanwhile.
Next == Poller \/ Gateway \/ ProviderCall \/ ReplyShort \/ Producer \/ HandlerLoop

Spec == Boot /\ [][Next]_vars

\* One request against a fixed strategy, with full upstream bodies.
NextStream == Gateway \/ ProviderCall \/ ReplyFull \/ Producer \/ HandlerLoop

StreamSpec == Init /\ [][NextStream]_vars

\* The gateway serving one request, for every strategy the cell may hold and
\* every provider map, generative routing and the routing expression off.
InitServe ==
    /\ \E s \in RoutedStrategies \ {NilStrategy} :
         cell = 1 /\ heap = [a \in {1} |-> s]
    /\ defaultModel = [p \in Registered |-> ""]
    /\ fetches = 1
    /\ fpc = "idle"
    /\ started = TRUE
    /\ interval = 1
    /\ ticker = "running"
    /\ InitReq
    /\ InitEvalWith(<<>>, 0)
    /\ InitRaceWith("", {}, {})
    /\ \E pm \in ProviderMaps : InitEngine(MkConfig(NilGenerative, ""), pm, <<>>)

NextServe == Gateway \/ ProviderCall \/ ReplyShort \/ Producer \/ HandlerLoop

ServeSpec == InitServe /\ [][NextServe]_vars

\* Start and the polling goroutine on their own, for any poll_interval.
PollSpec == BootAny /\ [][Poller]_vars

\* ---- inputs of ExpressionResolver.Resolve ----
\* Conditions: "complexity == 0 && length_check < 1",
\* "complexity == 1 || context_rel == 1", "length_check < 1",
\* "complexity != 1", and a malformed one.
ResolverConditions ==
    {Cond("and", <<Cmp("eq", "complexity", 0), Cmp("lt", "length_check", 1)>>),
     Cond("or", <<Cmp("eq", "complexity", 1), Cmp("eq", "context_rel", 1)>>),
     Cond("and", <<Cmp("lt", "length_check", 1)>>),
     Cond("and", <<Cmp("ne", "complexity", 1)>>),
     Cond("bad", <<>>)}

ResolverRules == [Condition : ResolverConditions, TargetProvider : {"anthropic", "openai"}]

ResolverRuleLists == UNION { [1..k -> ResolverRules] : k \in 0..MaxResolverRules }

\* SelectProvider about to be called with the generative tier on, a
\* dynamic_expression resolver over every rule list, three evaluators and
\* every provider registered: the provider chosen is the resolver's answer
\* (fallback_provider local_vllm if it is empty).
InitResolve ==
    /\ cell = 0
    /\ heap = [a \in {0} |-> ZeroStrategy]
    /\ defaultModel = [p \in Registered |-> ""]
    /\ fetches = 0
    /\ fpc = "idle"
    /\ started = TRUE
    /\ interval = 1
    /\ ticker = "running"
    /\ InitReqAt("snapped", [model |-> "m0", stream |-> FALSE, messages |-> 1], ZeroStrategy)
    /\ InitEvalWith(<<>>, 0)
    /\ InitRaceWith("", {}, {})
    /\ \E rl \in ResolverRuleLists, dp \in {"", "google"} :
         InitEngine(MkConfig(MkGenerative(TRUE, "local_vllm",
                                          MkResolution("dynamic_expression", rl, dp)),
                             ""),
                    Registered, <<"complexity", "context_rel", "length_check">>)

\* Requests a client may send: one to MaxMessages messages.
ChatRequests ==
    { MkChat(ms, mt) : ms \in UNION { [1..k -> ChatMessages] : k \in 1..MaxMessages },
                       mt \in {0, 1} }

\* One call of mapRequest, for every request.
InitMap ==
    /\ cell = 0
    /\ heap = [a \in {0} |-> ZeroStrategy]
    /\ defaultModel = [p \in Registered |-> ""]
    /\ fetches = 0
    /\ fpc = "idle"
    /\ started = TRUE
    /\ interval = 1
    /\ ticker = "running"
    /\ \E c \in ChatRequests :
         InitReqWith("start", [model |-> "", stream |-> FALSE, messages |-> 0], ZeroStrategy, c)
    /\ InitEvalWith(<<>>, 0)
    /\ InitRaceWith("", {}, {})
    /\ InitEngineOff

MapSpec == InitMap /\ [][MapRequest]_vars

\* One ChatCompletion call of a Gemini provider, for every key and model.
NextGemini == GeminiCall \/ GeminiNewRequest \/ GeminiDoFail \/ GeminiReply

GeminiSpec == Init /\ [][NextGemini]_vars

\* A streaming request routed to the Gemini provider.
InitGeminiStream ==
    /\ cell = 0
    /\ heap = [a \in {0} |-> ZeroStrategy]
    /\ defaultModel = [p \in Registered |-> ""]
    /\ fetches = 0
    /\ fpc = "idle"
    /\ started = TRUE
    /\ interval = 1
    /\ ticker = "running"
    /\ InitReqAt("snapped", [model |-> "m1", stream |-> TRUE, messages |-> 1],
                 MkStrategy("remote", "", "google", "", NoModels, "nil"))
    /\ InitEvalWith(<<>>, 0)
    /\ InitRaceWith("", {}, {})
    /\ InitEngineOff

NextGeminiStream ==
    Route \/ StreamEnter \/ ClientDisconnect \/ ProviderCall \/ ReplyGemini
        \/ Producer \/ HandlerLoop

GeminiStreamSpec == InitGeminiStream /\ [][NextGeminiStream]_vars

\* One request against a fixed strategy, fetched or not, and one call of
\* FallbackOn404Enabled on any receiver.
NextFlag == FallbackOn404EnabledCall \/ Gateway \/ ProviderCall \/ ReplyShort
                \/ Producer \/ HandlerLoop

FlagSpec == Init /\ [][NextFlag]_vars

\* One call of evaluateOllama, for every reply.
OllamaSpec == Init /\ [][evaluateOllama]_vars

\* One call of ProcessSSEStream, for every body and callback.
SSESpec == Init /\ [][ProcessSSEStream]_vars

\* One call of Resolve through SelectProvider, for every rule list and vector.
ResolveSpec == InitResolve /\ [][Route]_vars

\* One call of SelectProvider, for every input.
RouteSpec == InitRoute /\ [][Route]_vars

\* Concurrent callers of one provider's SetDefaultModel and resolveModel.
NextRace ==
    \/ \E i \in DOMAIN wpc : SetDefaultModel(i)
    \/ \E j \in DOMAIN rpc : ResolveCall(j)

RaceSpec == InitRace /\ [][NextRace]_vars

\* One call of EvaluateAll.
NextEval == EvalCall \/ Spawn \/ TaskStep \/ EvalReturn \/ Tick

EvalSpec == InitEval /\ [][NextEval]_vars

\* Scheduling: a handler whose select has a ready case proceeds; a producer
\* whose function returned runs its deferred close; a producer waiting on the
\* send or on the body read proceeds once the request context is cancelled.
NextLive == Gateway \/ ProviderCall \/ ReplyLive \/ Producer \/ HandlerLoop

FairStreamSpec ==
    /\ Init
    /\ [][NextLive]_vars
    /\ WF_vars(HandlerLoop)
    /\ WF_vars(ProducerExit)
    /\ WF_vars(ProducerSendAbort)
    /\ WF_vars(ctxDone /\ (ProducerScan \/ ProducerReadAbort))

(***************************************************************************)
(* Properties of the streaming pipeline.                                   *)
(***************************************************************************)
\* The ids of the data frames written to the client, in order.
DataIds(o) ==
    LET isData(f) == f.kind = "data"
        sel == SelectSeq(o, isData)
    IN [i \in 1..Len(sel) |-> sel[i].id]

\* s is a prefix of t.
IsPrefix(s, t) == Len(s) <= Len(t) /\ \A i \in 1..Len(s) : s[i] = t[i]

\* The request was a stream whose producer was started and whose handler
\* returned with the client still connected.
StreamServed == hpc = "done" /\ producers > 0 /\ ~ctxDone

\* C1: once the provider stream was started, the last frame written to the
\* client is the [DONE] frame unless the client disconnected, and the [DONE]
\* frame is never followed by another frame.
C1_DoneIsLast ==
    /\ StreamServed => (out # <<>> /\ out[Len(out)] = DoneFrame)
    /\ \A i \in 1..(Len(out) - 1) : out[i] # DoneFrame
    /\ (out # <<>> /\ out[Len(out)] = DoneFrame) => hpc = "done"

C1_Witness ==
    /\ StreamServed
    /\ Len(out) >= 3
    /\ out[Len(out)] = DoneFrame

\* C2: a ChatCompletionStream that returns nil has started exactly one
\* producer (none otherwise); the producer has exited iff it closed the
\* channel, which it does exactly once, and nothing is sent after the close.
C2_ClosedExactlyOnce ==
    /\ producers = (IF callResult = "ok" /\ req.stream THEN 1 ELSE 0)
    /\ closeCount <= 1
    /\ (gpc = "done") <=> (closeCount = 1)
    /\ gpc = "none" <=> producers = 0
    /\ ~sentAfterClose

\* The 404-fallback path, a chunk delivered, then the stream cut by the
\* client: the channel is closed once.
C2_Witness ==
    /\ Len(calls) = 2
    /\ gpc = "done"
    /\ closeCount = 1
    /\ Len(out) >= 1
    /\ ctxDone
    /\ pos < Len(body)

\* C3: once the request context is cancelled during a stream, the handler
\* returns and the producer terminates with the channel closed.
C3_DisconnectStopsBoth ==
    (ctxDone /\ hpc = "loop") ~> (hpc = "done" /\ gpc = "done" /\ closeCount = 1)

\* The handler left on ctx.Done() while the producer was trying to send, and
\* the producer closed the channel all the same.
C3_Witness ==
    /\ ctxDone
    /\ hpc = "done"
    /\ gpc = "done"
    /\ closeCount = 1
    /\ pos >= 1
    /\ LineAction(Kind(provider), body[pos]) = "send"
    /\ pos \notin {out[i].id : i \in 1..Len(out)}

\* The chunks of a body: payloads that parse as a stream chunk of the
\* provider (any JSON object does for the OpenAI-compatible one).
IsChunk(kind, l) == l = "chunk" \/ (kind = "openai" /\ l = "meta")

\* Positions of the chunks the upstream emitted before its [DONE] sentinel
\* (and before the connection broke).
ChunksBeforeDone(kind, b) ==
    LET keep(i) == /\ IsChunk(kind, b[i])
                   /\ \A j \in 1..(i - 1) : b[j] \notin {"done", "ioerr"}
    IN SelectSeq([i \in 1..Len(b) |-> i], keep)

\* The same, also cut at the first payload that does not parse when the
\* provider is the OpenAI-compatible one.
ChunksBeforeStop(kind, b) ==
    LET keep(i) == /\ IsChunk(kind, b[i])
                   /\ \A j \in 1..(i - 1) :
                        /\ b[j] \notin {"done", "ioerr"}
                        /\ ~(kind = "openai" /\ b[j] = "bad")
    IN SelectSeq([i \in 1..Len(b) |-> i], keep)

\* C4 as stated: with the client connected, the data frames are exactly the
\* chunks the upstream emitted before its [DONE] sentinel, in order.
C4_AllChunksDelivered ==
    StreamServed => DataIds(out) = ChunksBeforeDone(Kind(provider), body)

\* C4 amended: the data frames are, in order, the chunks emitted before the
\* [DONE] sentinel, before a read error and, for the OpenAI-compatible
\* provider, before the first payload that does not parse; at every moment
\* the frames written are a prefix of them.
C4_ChunksUntilStop ==
    /\ StreamServed => DataIds(out) = ChunksBeforeStop(Kind(provider), body)
    /\ producers > 0 => IsPrefix(DataIds(out), ChunksBeforeStop(Kind(provider), body))

\* Three chunks delivered in order and then [DONE].
C4_Witness ==
    /\ StreamServed
    /\ DataIds(out) = <<1, 2, 3>>
    /\ out[Len(out)] = DoneFrame

(***************************************************************************)
(* Properties of the provider call.                                        *)
(***************************************************************************)
\* The provider call has returned to the handler.
CallOver == callResult # "none"

\* The strategy's flag was consulted for the first reply and was enabled.
FallbackGranted == fbStrat # <<>> /\ FallbackOn404Enabled(fbStrat[1])

\* C5: a second upstream request is issued iff the first reply is 404, the
\* attempted model is not the compile-time default and the strategy current
\* at that moment enables the fallback; it carries the compile-time default.
\* With the fallback disabled a 404 gives one upstream call and an error.
C5_FallbackIff ==
    /\ Len(calls) >= 2 =>
         /\ statuses[1] = 404
         /\ calls[1] # DefaultModel(Kind(provider))
         /\ FallbackGranted
         /\ calls[2] = DefaultModel(Kind(provider))
    /\ (CallOver /\ statuses[1] = 404 /\ calls[1] # DefaultModel(Kind(provider))
          /\ FallbackGranted) => Len(calls) >= 2
    /\ (CallOver /\ statuses[1] = 404 /\ ~FallbackGranted) =>
         (Len(calls) = 1 /\ callResult = "err" /\ httpStatus = 502)

\* A sync request with an empty model resolved to a bad runtime default:
\* 404, then the retry with the compile-time default succeeds.
C5_Witness ==
    /\ CallOver
    /\ ~req.stream
    /\ calls = <<"bad-model", DefaultModel(Kind(provider))>>
    /\ statuses = <<404, 200>>
    /\ httpStatus = 200

\* C6: a provider call issues at most two upstream requests; a non-200
\* reply to the retry, and a first reply that is neither 200 nor 404, end
\* the call with an error.
C6_AtMostTwoCalls ==
    /\ Len(calls) <= 2
    /\ Len(statuses) <= 2
    /\ (Len(statuses) = 2 /\ statuses[2] # 200) =>
         (callResult = "err" /\ hpc = "done" /\ Len(calls) = 2)
    /\ (Len(statuses) >= 1 /\ statuses[1] \notin {200, 404}) =>
         (callResult = "err" /\ hpc = "done" /\ Len(calls) = 1)

\* The retry itself was answered 404 and the call failed.
C6_Witness ==
    /\ statuses = <<404, 404>>
    /\ Len(calls) = 2
    /\ callResult = "err"

\* C7: every strategy-dependent decision of a request is based on the
\* strategy handleChatCompletions obtained: the fallback flag consulted on a
\* 404 is that of the request's snapshot.
C7_SingleSnapshot ==
    \A i \in 1..Len(fbStrat) : fbStrat[i] = snap

\* Scheduling: the caller and the tasks run, and every Evaluate returns.
PoolStep == Spawn \/ TaskStep \/ EvalReturn

FairEvalSpec == EvalSpec /\ WF_vars(PoolStep)

(***************************************************************************)
(* Properties of the evaluator pool.                                       *)
(***************************************************************************)
\* C8: EvaluateAll returns no later than globalTimeoutMs (plus slack) after
\* it was called, whatever the evaluators do.
C8_ReturnsByDeadline ==
    epc = "returned" => returnedAt <= startAt + Timeout(gTimeout) + SlackMs

\* C9: the returned map holds no key written by a task whose Evaluate
\* returned after the deadline.
C9_NoLateKeys ==
    epc = "returned" =>
        \A k \in DOMAIN results : ~finishedLate[writer[k]]

\* C10: EvaluateAll returns only when every spawned task has settled, no
\* task writes to the map after the return, and once called EvaluateAll
\* does return.
C10_ReturnsAfterAllSettle ==
    /\ [](epc = "returned" =>
            /\ spawned = Len(evals)
            /\ \A i \in 1..Len(evals) : task[i] = "done")
    /\ [](~lateWrite)
    /\ (epc = "spawn") ~> (epc = "returned")

\* Two tasks, one of them settled by an error and one by a result stored
\* after the deadline, and EvaluateAll has returned.
C10_Witness ==
    /\ epc = "returned"
    /\ Len(evals) = 2
    /\ Cardinality(DOMAIN results) = 1
    /\ \E k \in DOMAIN results : finishedLate[writer[k]]

(***************************************************************************)
(* Properties of the evaluator pool: partial failure.                      *)
(***************************************************************************)
\* The tasks whose Evaluate returned a result and no error.
Succeeded == {i \in DOMAIN taskRes : task[i] = "done" /\ taskRes[i] >= 0}

CompleteStrategies == {ZeroStrategy} \cup FetchedStrategies

\* C12: the cell always points to a complete strategy; the strategy a
\* request obtained from GetStrategy, also while a fetch is running, is a
\* complete one (the previous or the new, never a mix of fields), and the
\* object handed to the request still holds, at any later time, the value
\* it held when it was handed over.
C12_AtomicReplacement ==
    /\ cell \in DOMAIN heap
    /\ heap[cell] \in CompleteStrategies
    /\ snapAt >= 0 =>
          /\ snap \in CompleteStrategies
          /\ snapAt \in DOMAIN heap
          /\ heap[snapAt] = snap

\* A request obtained its strategy before the running fetch stored the
\* document it decoded; the fetch has now published the new strategy, which
\* differs from the one the request still holds.
C12_Witness ==
    /\ snapAt >= 0
    /\ fpc = "apply"
    /\ cell = fetches
    /\ snapAt < cell
    /\ heap[cell] # heap[snapAt]
    /\ heap[snapAt] = snap

\* C13: a fetch that fails leaves the cell pointing to the object it pointed
\* to, that object unchanged, and every provider's default model as it was
\* (no SetDefaultModel takes effect).
C13_FailedFetchNoEffect ==
    [][(fpc = "idle" /\ fpc' = "idle" /\ fetches' = fetches + 1) =>
          (cell' = cell /\ heap' = heap /\ defaultModel' = defaultModel)]_vars

\* A first fetch stored a document and applied its models, a second fetch
\* failed: the cell still points to the first fetch's object.
C13_Witness ==
    /\ fetches = 2
    /\ fpc = "idle"
    /\ cell = 1
    /\ heap[cell] \in FetchedStrategies

\* C14: in every reachable state GetStrategy returns a non-nil strategy, and
\* so did the call a request made; as long as no fetch has stored a document
\* (the cell still points to the object NewRemoteManager stored, address 0),
\* what it returns is the empty zero-valued strategy.
C14_NeverNil ==
    /\ GetStrategy(CellStrategy).ptr = "set"
    /\ cell = 0 => GetStrategy(CellStrategy) = ZeroStrategy
    /\ snapAt >= 0 =>
          /\ snap.ptr = "set"
          /\ snapAt = 0 => snap = ZeroStrategy

\* Both fetches made so far have failed, and the request served meanwhile
\* obtained the empty strategy.
C14_Witness ==
    /\ fetches = 2
    /\ fpc = "idle"
    /\ cell = 0
    /\ snapAt = 0
    /\ snap = ZeroStrategy

(***************************************************************************)
(* Properties of the providers' runtime default models.                    *)
(***************************************************************************)
\* C15: when a fetch applies the provider models of the document it stored,
\* every registered provider whose entry is non-empty gets that model as
\* its default and every other registered provider (entry empty or absent)
\* keeps the default it had; and no step of the system ever turns a
\* non-empty default into an empty one.
C15_ApplyPreservesOnEmpty ==
    /\ [][(fpc = "apply" /\ fpc' = "idle") =>
            LET models == heap[fetches].ProviderModels IN
            \A p \in Registered :
                IF p \in DOMAIN models /\ models[p] # ""
                THEN defaultModel'[p] = models[p]
                ELSE defaultModel'[p] = defaultModel[p]]_vars
    /\ [][\A p \in Registered :
              defaultModel[p] # "" => defaultModel'[p] # ""]_vars

\* The first fetch set anthropic's default to m2; the second stored a
\* document whose provider models hold only an empty entry for google, and
\* after it was applied anthropic still has m2 and google its own default.
C15_Witness ==
    /\ fetches = 2
    /\ fpc = "idle"
    /\ cell = 2
    /\ DOMAIN heap[cell].ProviderModels = {"google"}
    /\ heap[cell].ProviderModels["google"] = ""
    /\ defaultModel["anthropic"] = "m2"
    /\ defaultModel["google"] = "bad-model"

\* C16: with SetDefaultModel and resolveModel callers running concurrently,
\* every model a resolveModel call returned is a whole string (both words of
\* the same string), and that string is one a SetDefaultModel caller that
\* has started writing passed, the default the provider was built with, or
\* the compile-time constant.
C16_NoTornRead ==
    \A j \in DOMAIN rpc :
        rpc[j] = "done" =>
            /\ rres[j].ptr = rres[j].len
            /\ \/ \E i \in DOMAIN wpc :
                     rres[j].ptr = WrittenModel(i) /\ wpc[i] # "start"
               \/ rres[j].ptr = defaultModel["openai"] /\ rres[j].ptr # ""
               \/ rres[j].ptr = DefaultModel("openai")

\* A resolveModel call returned the first writer's model, another is
\* waiting for the lock while the second writer, holding it, has stored
\* one word of its model.
C16_Witness ==
    /\ rpc[1] = "done"
    /\ rres[1] = StrWords(WrittenModel(1))
    /\ rpc[2] = "start"
    /\ wpc[2] = "len"
    /\ dmWords.ptr # dmWords.len

(***************************************************************************)
(* Properties of Start and the polling goroutine.                          *)
(***************************************************************************)
\* C17: Start has made exactly one fetch when it returns, and from then on
\* the polling goes on whatever the fetches' results: as long as fetches
\* remain to be made, the poller is starting its ticker, is inside a fetch
\* or can begin the next one.
C17_PollingGoesOn ==
    /\ started => fetches >= 1
    /\ ~started => (fetches = 0 \/ (fetches = 1 /\ fpc # "idle"))
    /\ (started /\ fetches < MaxFetches /\ fpc = "idle") =>
          ENABLED (TickerStart \/ FetchFail \/ FetchUnmarshal)

(***************************************************************************)
(* Properties of SelectProvider.                                           *)
(***************************************************************************)
\* The generative tier's target for the vector EvaluateAll returned.
GenTarget(v) ==
    LET g == GlobalConfig.GenerativeRouting
        t == ResolverResolve(g.Resolution, v)
    IN IF t # "" THEN t ELSE g.FallbackProvider

\* C18: with generative routing enabled and at least one evaluator, if the
\* target (the resolver's result if non-empty, else fallback_provider) is a
\* registered provider, SelectProvider returns that provider with the
\* request's model unchanged and no error, whatever the remote strategy is.
C18_GenerativeDecides ==
    [][(Route /\ GenerativeOn(GlobalConfig, engine)
              /\ GenTarget(vectors') \in engine.providerMap)
         => /\ provider' = GenTarget(vectors')
            /\ req'.model = req.model
            /\ hpc' = "resolve"
            /\ httpStatus' = httpStatus]_vars

\* The generative tier decided for the resolver's target under a strategy
\* that static routing would have refused.
C18_Witness ==
    /\ hpc = "resolve"
    /\ GenerativeOn(GlobalConfig, engine)
    /\ ResolverResolve(GlobalConfig.GenerativeRouting.Resolution, vectors) = "anthropic"
    /\ GlobalConfig.GenerativeRouting.FallbackProvider = "google"
    /\ provider = "anthropic"
    /\ snap.Strategy = "unknown"
    /\ req.model = "m0"

\* The configuration with generative routing switched off.
GenerativeDisabled == [GlobalConfig EXCEPT !.GenerativeRouting.Enabled = FALSE]

\* C19: when the generative tier runs and its target is not a registered
\* provider, SelectProvider does not fail there: the handler gets exactly
\* what SelectProvider returns for the same request and strategy with
\* generative routing disabled (a provider and model, or that call's error).
C19_UnknownTargetFallsThrough ==
    [][(Route /\ GenerativeOn(GlobalConfig, engine)
              /\ GenTarget(vectors') \notin engine.providerMap)
         => LET r == SelectProvider(req, snap, engine, GenerativeDisabled, NoVector)
            IN IF r.err
               THEN hpc' = "done" /\ httpStatus' = 500 /\ req' = req
               ELSE /\ provider' = r.p
                    /\ req'.model = r.model
                    /\ hpc' = "resolve"
                    /\ httpStatus' = httpStatus]_vars

\* The generative target was the unregistered deepseek and the request went
\* to the provider and model of the remote strategy.
C19_Witness ==
    /\ hpc = "resolve"
    /\ GenerativeOn(GlobalConfig, engine)
    /\ GenTarget(vectors) = "deepseek"
    /\ snap.Strategy = "remote"
    /\ provider = "openai"
    /\ req.model = "m1"

\* The generative tier did not decide: it did not run, or its target is
\* not registered.
GenerativeUndecided(v) ==
    ~GenerativeOn(GlobalConfig, engine) \/ GenTarget(v) \notin engine.providerMap

ExprValue == ExprRun(GlobalConfig.RemoteStrategy.Expression, req, snap)

\* The routing expression is evaluated: the tiers above did not decide, an
\* expression is configured and it compiles.
ExprEvaluated(v) ==
    /\ GenerativeUndecided(v)
    /\ snap.ptr = "set" /\ snap.Strategy # ""
    /\ GlobalConfig.ptr = "set"
    /\ GlobalConfig.RemoteStrategy.Expression # ""
    /\ ExprCompiles(GlobalConfig.RemoteStrategy.Expression)

\* C21: when the routing expression returns the name of a registered
\* provider, SelectProvider returns that provider, with the strategy's
\* local_model if the provider is local_vllm and local_model is non-empty,
\* else the strategy's remote_model if non-empty, else the request's model.
C21_ExpressionTargetModel ==
    [][(Route /\ ExprEvaluated(vectors')
              /\ ~ExprValue.err /\ ExprValue.str
              /\ ExprValue.val \in engine.providerMap)
         => /\ provider' = ExprValue.val
            /\ hpc' = "resolve"
            /\ req'.model =
                  IF ExprValue.val = "local_vllm" /\ snap.LocalModel # ""
                  THEN snap.LocalModel
                  ELSE IF snap.RemoteModel # "" THEN snap.RemoteModel
                  ELSE req.model]_vars

\* The expression named local_vllm under a strategy with both models set,
\* and the request went there with the local model.
C21_Witness ==
    /\ hpc = "resolve"
    /\ GlobalConfig.RemoteStrategy.Expression
         = "Cfg.Strategy == 'remote' ? 'anthropic' : 'local_vllm'"
    /\ GenerativeUndecided(vectors)
    /\ snap.Strategy = "local" /\ snap.LocalModel # "" /\ snap.RemoteModel # ""
    /\ provider = "local_vllm"
    /\ req.model = snap.LocalModel

\* The configured routing expression does not name a registered provider:
\* it does not compile, fails at run time, yields a non-string, or yields
\* the name of a provider that is not registered.
ExprUseless ==
    LET x == GlobalConfig.RemoteStrategy.Expression
    IN /\ GlobalConfig.ptr = "set" /\ x # ""
       /\ \/ ~ExprCompiles(x)
          \/ ExprRun(x, req, snap).err
          \/ ~ExprRun(x, req, snap).str
          \/ ExprRun(x, req, snap).val \notin engine.providerMap

\* C22: a routing expression that fails to compile, fails at run time,
\* yields a non-string or names an unregistered provider does not make
\* SelectProvider fail by itself: the handler gets what the direct tier
\* returns for the strategy (its provider and model, or its error).
C22_ExpressionFallsThrough ==
    [][(Route /\ GenerativeUndecided(vectors')
              /\ snap.ptr = "set" /\ snap.Strategy # ""
              /\ ExprUseless)
         => LET d == DirectTier(req, snap, engine.providerMap)
            IN IF d.err
               THEN hpc' = "done" /\ httpStatus' = 500 /\ req' = req
               ELSE /\ provider' = d.p
                    /\ req'.model = d.model
                    /\ hpc' = "resolve"
                    /\ httpStatus' = httpStatus]_vars

\* The expression named an unregistered provider and the request went to
\* the remote strategy's provider and model.
C22_Witness ==
    /\ hpc = "resolve"
    /\ GlobalConfig.RemoteStrategy.Expression = "'unknown_provider'"
    /\ snap.Strategy = "remote"
    /\ provider = "openai"
    /\ req.model = "m1"

\* The direct tier is reached: the generative tier did not decide, the
\* strategy is there, and no routing expression decided.
DirectReached(v) ==
    /\ GenerativeUndecided(v)
    /\ snap.ptr = "set" /\ snap.Strategy # ""
    /\ (GlobalConfig.ptr = "nil" \/ GlobalConfig.RemoteStrategy.Expression = ""
          \/ ExprUseless)

\* The request is refused with a routing error.
RoutingError == hpc' = "done" /\ httpStatus' = 500 /\ req' = req

\* C23: in the direct tier, Strategy "remote" selects remote_provider
\* ("google" when empty) with model remote_model, Strategy "local" selects
\* local_vllm with model local_model; it is an error if the selected provider
\* is not registered, and for every other non-empty Strategy value.
C23_DirectTier ==
    [][(Route /\ DirectReached(vectors'))
         => LET target == IF snap.Strategy = "local" THEN "local_vllm"
                          ELSE IF snap.RemoteProvider = "" THEN "google"
                          ELSE snap.RemoteProvider
                model  == IF snap.Strategy = "local" THEN snap.LocalModel
                          ELSE snap.RemoteModel
            IN IF snap.Strategy \in {"remote", "local"} /\ target \in engine.providerMap
               THEN provider' = target /\ req'.model = model /\ hpc' = "resolve"
               ELSE RoutingError]_vars

\* A request under Strategy "remote" with no remote_provider went to google
\* with the strategy's remote model.
C23_Witness ==
    /\ hpc = "resolve"
    /\ GlobalConfig.RemoteStrategy.Expression = ""
    /\ snap.Strategy = "remote" /\ snap.RemoteProvider = ""
    /\ provider = "google"
    /\ req.model = snap.RemoteModel

(***************************************************************************)
(* Properties of the gateway.                                              *)
(***************************************************************************)
\* C24: the provider is invoked with req.model equal to the model
\* SelectProvider returned: the handler overwrites req.model with it, nothing
\* changes the request between that and the provider call, and the provider
\* resolves an empty model to its runtime default, else its compile-time
\* default, and leaves a non-empty one alone.
C24_ProviderGetsRoutedModel ==
    [][/\ (Route /\ hpc' # "done")
            => req'.model
                 = SelectProvider(req, snap, engine, GlobalConfig, vectors').model
       /\ (hpc \in {"stream", "resolve"} /\ ~Resolve) => req' = req
       /\ Resolve
            => req'.model = IF req.model # "" THEN req.model
                            ELSE IF defaultModel[provider] # ""
                                 THEN defaultModel[provider]
                                 ELSE DefaultModel(Kind(provider))]_vars

\* The strategy's remote model was empty: the first upstream call carries
\* the provider's default, whatever the client asked for.
C24_Witness ==
    /\ hpc = "await"
    /\ Len(calls) = 1
    /\ snap.Strategy = "remote" /\ snap.RemoteModel = ""
    /\ provider = "anthropic"
    /\ calls[1] \in {"m2", "bad-model", DefaultModel("anthropic")}

Resolution == GlobalConfig.GenerativeRouting.Resolution

\* Rule i of the configured list was compiled and its condition evaluates
\* to the boolean true on the vector v.
RuleTrue(i, v) ==
    /\ Compiles(Resolution.Rules[i].Condition)
    /\ CondEval(Resolution.Rules[i].Condition.conn,
                Resolution.Rules[i].Condition.atoms, v) = "true"

\* The provider routed to when the resolver's answer is t.
RoutedFor(t) == IF t # "" THEN t ELSE GlobalConfig.GenerativeRouting.FallbackProvider

\* C26: Resolve returns the target_provider of the first rule, in the
\* configured order, whose condition evaluates to true, so an earlier
\* matching rule wins over a later one; if no rule matches it returns
\* default_provider.
C26_FirstMatchWins ==
    [][Route =>
         LET n == Len(Resolution.Rules)
         IN \/ \E i \in 1..n :
                 /\ RuleTrue(i, vectors')
                 /\ \A j \in 1..(i - 1) : ~RuleTrue(j, vectors')
                 /\ provider' = RoutedFor(Resolution.Rules[i].TargetProvider)
            \/ /\ \A i \in 1..n : ~RuleTrue(i, vectors')
               /\ provider' = RoutedFor(Resolution.DefaultProvider)]_vars

\* Two rules for different providers both matched and the first one won.
C26_Witness ==
    /\ hpc = "resolve"
    /\ Len(Resolution.Rules) = 2
    /\ RuleTrue(1, vectors) /\ RuleTrue(2, vectors)
    /\ Resolution.Rules[1].TargetProvider = "anthropic"
    /\ Resolution.Rules[2].TargetProvider = "openai"
    /\ provider = "anthropic"

\* Rule i of the configured list refers to a dimension absent from v.
RefersToAbsent(i, v) ==
    \E k \in DOMAIN Resolution.Rules[i].Condition.atoms :
        Resolution.Rules[i].Condition.atoms[k].var \notin DOMAIN v

\* The evaluation of rule i's condition on v fails.
RuleFails(i, v) ==
    /\ Compiles(Resolution.Rules[i].Condition)
    /\ CondEval(Resolution.Rules[i].Condition.conn,
                Resolution.Rules[i].Condition.atoms, v) = "error"

\* The answer of Resolve on the rules whose index is in I: the target of
\* the first of them that evaluates to true, else default_provider.
AnswerAmong(I, v) ==
    IF \E i \in I : RuleTrue(i, v)
    THEN Resolution.Rules[CHOOSE i \in I : RuleTrue(i, v) /\
                             \A j \in I : j < i => ~RuleTrue(j, v)].TargetProvider
    ELSE Resolution.DefaultProvider

C28_FirstAttemptModel ==
    [][/\ (Resolve /\ req.model # "") => req'.model = req.model
       /\ (Resolve /\ req.model = "" /\ defaultModel[provider] # "")
            => req'.model = defaultModel[provider]
       /\ (Resolve /\ req.model = "" /\ defaultModel[provider] = "")
            => req'.model = DefaultModel(Kind(provider))
       /\ (hpc = "post" /\ calls = <<>> /\ ~Post) => req' = req
       /\ (Post /\ calls = <<>>) => calls' = <<req.model>>]_vars

\* A first attempt that carries the compile-time default: the request named
\* no model and the provider's runtime default is empty.
C28_Witness ==
    /\ hpc = "await"
    /\ Len(calls) = 1
    /\ provider = "google"
    /\ defaultModel["google"] = ""
    /\ calls[1] = DefaultModel("google")

\* C29: every upstream reply a provider obtained has its body closed exactly
\* once. No body is closed twice and a failed request has none to close; a
\* body not closed yet belongs to a synchronous call that has not returned
\* (its close is deferred) or is the 200 reply the running pipeStream reads.
\* So once the call has returned and pipeStream has ended, whether after a
\* non-200 status, a 404 retried, a decode error, the end of the stream or a
\* cancelled context, each body has been closed once.
C29_BodiesClosedOnce ==
    /\ Len(bodyCloses) = Len(statuses)
    /\ \A i \in DOMAIN statuses :
         /\ bodyCloses[i] <= 1
         /\ statuses[i] = 0 => bodyCloses[i] = 0
         /\ (statuses[i] # 0 /\ bodyCloses[i] = 0) =>
              \/ ~req.stream /\ callResult = "none"
              \/ /\ req.stream /\ callResult = "ok"
                 /\ i = Len(statuses) /\ statuses[i] = 200
                 /\ gpc \in {"scan", "send", "closing"}

\* A stream retried after a 404 and then abandoned by the client: both
\* replies are closed, the second by pipeStream on its way out.
C29_Witness ==
    /\ req.stream
    /\ statuses = <<404, 200>>
    /\ ctxDone
    /\ gpc = "done"
    /\ pos < Len(body)
    /\ bodyCloses = <<1, 1>>

\* Positions of the system-role messages of the request, whatever the case.
SystemAt == { i \in DOMAIN chat.Messages : ToLower(chat.Messages[i].Role) = "system" }

FirstSystem == CHOOSE i \in SystemAt : \A j \in SystemAt : i <= j

\* The request's messages but the first system one.
OtherMessages ==
    IF SystemAt = {} THEN chat.Messages
    ELSE SubSeq(chat.Messages, 1, FirstSystem - 1)
           \o SubSeq(chat.Messages, FirstSystem + 1, Len(chat.Messages))

\* C30: the mapped request carries the content of the first system-role
\* message (roles compared without regard to case) in its system field, and
\* its messages are all the other messages of the request, in their order,
\* each with the role user or assistant it had and user for any other role.
C30_FirstSystemHoisted ==
    areq.ptr = "set" =>
        /\ SystemAt # {} => areq.System = chat.Messages[FirstSystem].Content
        /\ Len(areq.Messages) = Len(OtherMessages)
        /\ \A i \in DOMAIN OtherMessages :
             /\ areq.Messages[i].Content = OtherMessages[i].Content
             /\ areq.Messages[i].Role
                  = IF ToLower(OtherMessages[i].Role) \in {"user", "assistant"}
                    THEN ToLower(OtherMessages[i].Role)
                    ELSE "user"

\* C31: with a non-empty API key, neither the error a Gemini call returns nor
\* any line the provider logs contains the key.
C31_KeyNeverDisclosed ==
    gem.apiKey # <<>> =>
        /\ ~Contains(gem.err, gem.apiKey)
        /\ \A i \in DOMAIN gem.logs : ~Contains(gem.logs[i], gem.apiKey)

\* Lines prefixed `data: ` other than `data: [DONE]`.
IsDataLine(i) == sse.lines[i] \in DataKinds

\* Line i comes before the first `data: [DONE]` line.
BeforeDone(i) == \A j \in 1..(i - 1) : sse.lines[j] # "done"

\* The callback was invoked exactly once on each line of I, in input order,
\* and on no other line.
CalledOn(I) ==
    /\ { sse.called[n] : n \in DOMAIN sse.called } = I
    /\ \A n, m \in DOMAIN sse.called : n < m => sse.called[n] < sse.called[m]

\* C32 as stated: the callback is invoked once, in input order, on each data
\* line that precedes the first `data: [DONE]` line, and on no other line.
C32_EveryDataLineBeforeDone ==
    sse.pc = "done" =>
        CalledOn({ i \in DOMAIN sse.lines : IsDataLine(i) /\ BeforeDone(i) })

\* C32: the callback is invoked once, in input order, on each data line
\* that precedes the first `data: [DONE]` line, the first failed read and
\* the end of the first invocation that returned an error, and on no other
\* line.
C32_DataLinesUntilStop ==
    sse.pc = "done" =>
        CalledOn({ i \in DOMAIN sse.lines :
                     /\ IsDataLine(i)
                     /\ \A j \in 1..(i - 1) :
                          /\ sse.lines[j] \notin {"done", "ioerr"}
                          /\ sse.lines[j] \notin sse.fails })

\* The callback failed on the second data line: the third, still ahead of
\* [DONE], was never handed over.
C32_Witness ==
    /\ sse.pc = "done"
    /\ sse.fails = {"bad"}
    /\ sse.lines = <<"chunk", "bad", "chunk">>
    /\ sse.called = <<1, 2>>

\* The lines of the body the producer gets to: those ahead of the first
\* [DONE] line and of the first failed read.
Scanned == { i \in DOMAIN body : \A j \in 1..i : body[j] \notin {"done", "ioerr"} }

\* The producer has read the whole stream with the client still there.
GeminiStreamOver == Kind(provider) = "google" /\ gpc = "done" /\ ~ctxDone

\* Number of data frames written for body line i.
FramesFor(i) == Cardinality({ n \in DOMAIN out : out[n] = DataFrame(i) })

\* The data frames follow the order of the lines they were built from.
InUpstreamOrder ==
    \A n, m \in DOMAIN DataIds(out) : n < m => DataIds(out)[n] < DataIds(out)[m]

\* C33 as stated: the Gemini producer emits one chunk for each candidate of
\* the events ahead of [DONE], in upstream order, and none past [DONE].
C33_ChunkPerCandidate ==
    /\ Kind(provider) = "google" => InUpstreamOrder
    /\ GeminiStreamOver =>
         \A i \in DOMAIN body :
             FramesFor(i) = IF i \in Scanned THEN Candidates(body[i]) ELSE 0

\* C33: the Gemini producer emits one chunk for each event whose first
\* candidate has a part, in upstream order, and none for any other line nor
\* past [DONE]; a cancelled request context cuts the stream short.
C33_ChunkPerEventWithPart ==
    /\ Kind(provider) = "google" =>
         /\ InUpstreamOrder
         /\ \A i \in DOMAIN body :
              /\ FramesFor(i) <= 1
              /\ FramesFor(i) = 1 => (i \in Scanned /\ body[i] \in {"chunk", "multi"})
    /\ GeminiStreamOver =>
         \A i \in Scanned : body[i] \in {"chunk", "multi"} => FramesFor(i) = 1

\* An event with text, one whose candidate has no parts, one listing two
\* candidates: two chunks reached the client.
C33_Witness ==
    /\ GeminiStreamOver
    /\ body = <<"chunk", "noparts", "multi">>
    /\ DataIds(out) = <<1, 3>>

\* C34: a request that reached the routing engine's answer or a provider
\* carries at least one message.
C34_AtLeastOneMessage ==
    (provider # "" \/ calls # <<>>) => req.messages >= 1

\* C35: under the ollama protocol the LLM-Logprob evaluator returns, for
\* every reply, an error or a score that is exactly 0 or exactly 1.
C35_OllamaScoreBinary ==
    olm.pc = "done" => (olm.err \/ olm.score \in {0, 1})

(***************************************************************************)
(* The fallback flag's default.                                            *)
(***************************************************************************)
\* C36: FallbackOn404Enabled returns true on a nil receiver and when the
\* field is absent, and the field's value when it is present; and as long as
\* no fetch has stored a document, a first reply of 404 to a model other
\* than the compile-time default is retried.
C36_FallbackOn404Default ==
    /\ [](flag.pc = "done" =>
            /\ flag.rs.ptr = "nil" => flag.enabled
            /\ (flag.rs.ptr # "nil" /\ flag.rs.FallbackOn404 = "nil") => flag.enabled
            /\ (flag.rs.ptr # "nil" /\ flag.rs.FallbackOn404 = "true") => flag.enabled
            /\ (flag.rs.ptr # "nil" /\ flag.rs.FallbackOn404 = "false") => ~flag.enabled)
    /\ [][(Len(fbStrat') > Len(fbStrat) /\ cell = 0) =>
            (hpc' = "post" /\ req'.model = DefaultModel(Kind(provider)))]_vars

\* The method was called on a nil receiver and answered true, and a request
\* served before any document was fetched had its 404 retried.
C36_Witness ==
    /\ flag.pc = "done"
    /\ flag.rs = NilStrategy
    /\ flag.enabled
    /\ cell = 0
    /\ fbStrat = <<ZeroStrategy>>
    /\ Len(calls) = 2
    /\ statuses[1] = 404

(***************************************************************************)
(* Publication of a strategy and of its provider models.                   *)
(***************************************************************************)
\* Every registered provider the strategy names with a non-empty model
\* resolves an empty request model to that model.
ModelsApplied(s) ==
    \A p \in Registered \cap DOMAIN s.ProviderModels :
        s.ProviderModels[p] # "" =>
            resolveModel(p, "", defaultModel) = s.ProviderModels[p]

\* handleChatCompletions calls GetStrategy.
ObtainsStrategy == hpc = "decoded" /\ hpc' = "snapped"

\* C37 as stated: whenever a request obtains a strategy from GetStrategy,
\* every registered provider it names with a non-empty model already
\* resolves an empty request model to that model.
C37_ObservedTogether ==
    [][ObtainsStrategy => ModelsApplied(snap')]_vars

\* C37: a request that obtains the strategy from GetStrategy while no fetch
\* is between its Store and its applyProviderModels finds every registered
\* provider the strategy names with a non-empty model resolving an empty
\* request model to that model.
C37_AppliedOutsideWindow ==
    [][(ObtainsStrategy /\ fpc # "apply") => ModelsApplied(snap')]_vars

\* A request holds the strategy the second fetch published, which names
\* anthropic with m2; the fetch is over and anthropic, whose default was
\* another model before, resolves an empty request model to m2.
C37_Witness ==
    /\ hpc = "snapped"
    /\ fpc = "idle"
    /\ fetches = 2
    /\ snapAt = 2
    /\ cell = 2
    /\ "anthropic" \in DOMAIN snap.ProviderModels
    /\ snap.ProviderModels["anthropic"] = "m2"
    /\ defaultModel["google"] = "bad-model"
    /\ resolveModel("anthropic", "", defaultModel) = "m2"

(***************************************************************************)
(* A payload the OpenAI-compatible producer cannot parse.                  *)
(***************************************************************************)
\* Line i is the first payload of the body that does not parse, and the
\* upstream neither ended the stream nor broke before it.
FirstBadAt(i) ==
    /\ body[i] = "bad"
    /\ \A j \in 1..(i - 1) : body[j] \notin {"done", "ioerr", "bad"}

\* The frames of the chunks ahead of line i, then the [DONE] frame.
WellTerminatedBefore(i) ==
    LET parses(j) == body[j] \in {"meta", "chunk"}
        ids == SelectSeq([j \in 1..(i - 1) |-> j], parses)
    IN [n \in 1..Len(ids) |-> DataFrame(ids[n])] \o <<DoneFrame>>

\* C38: in the OpenAI-compatible provider the first payload that does not
\* parse ends the stream: the producer reads nothing after it, no chunk that
\* follows it is forwarded, the channel is closed when the producer returns,
\* and a client that stayed connected gets the chunks that preceded the
\* payload, in order, followed by the [DONE] frame.
C38_BadPayloadEndsStream ==
    \A i \in DOMAIN body :
        (Kind(provider) = "openai" /\ producers > 0 /\ FirstBadAt(i)) =>
            /\ pos <= i
            /\ pos = i => gpc \in {"closing", "done"}
            /\ \A n \in DOMAIN out : out[n].kind = "data" => out[n].id < i
            /\ gpc = "done" => closeCount = 1
            /\ StreamServed => out = WellTerminatedBefore(i)

\* A chunk, a payload that does not parse, another chunk: the client got the
\* first chunk and the [DONE] frame.
C38_Witness ==
    /\ StreamServed
    /\ Kind(provider) = "openai"
    /\ body = <<"chunk", "bad", "chunk">>
    /\ gpc = "done"
    /\ pos = 2
    /\ closeCount = 1
    /\ out = <<DataFrame(1), DoneFrame>>

(***************************************************************************)
(* The outcomes of SelectProvider.                                         *)
(***************************************************************************)
\* A registered provider and no error, or no provider and an error.
ProviderXorError(r, pmap) ==
    \/ r.p \in pmap /\ r.p # "" /\ ~r.err
    \/ r.p = "" /\ r.err

\* handleChatCompletions calls SelectProvider and acts on what it returns.
Routes == hpc = "snapped" /\ hpc' # "snapped"

\* C39: for every request, strategy (nil too), engine and configuration,
\* SelectProvider returns a registered provider with a nil error or a nil
\* provider with an error; the handler answers 500 in the second case and
\* goes on with a registered provider in the first.
C39_SelectProviderTotal ==
    /\ [](hpc = "snapped" =>
            \A v \in Vectors(engine) :
                ProviderXorError(SelectProvider(req, snap, engine, GlobalConfig, v),
                                 engine.providerMap))
    /\ [][Routes =>
            IF hpc' = "done"
            THEN httpStatus' = 500 /\ provider' = ""
            ELSE provider' \in engine.providerMap]_vars

\* A nil strategy and neither google nor local_vllm registered: the handler
\* answered 500 and holds no provider.
C39_Witness ==
    /\ hpc = "done"
    /\ httpStatus = 500
    /\ provider = ""
    /\ snap = NilStrategy
    /\ engine.providerMap = {"openai", "anthropic"}

(***************************************************************************)
(* The map EvaluateAll returns and the order of the tasks' writes.         *)
(***************************************************************************)
\* C40: the map EvaluateAll returns is fixed by the evaluators' outcomes,
\* whatever the order in which the tasks ran: every key holds the score of
\* every succeeded evaluator of that name, so that which of two evaluators
\* sharing a name wrote last makes no difference.
C40_ScheduleIndependent ==
    epc = "returned" =>
        \A k \in DOMAIN results :
            \A i \in Succeeded : evals[i].name = k => results[k] = taskRes[i]

====
